---- MODULE Spec2Model ----
(***************************************************************************)
(* The route / airport core of the delaynomics dashboard                   *)
(* (src/dashboard_app_enhanced.py): the route parser, the coordinate       *)
(* resolver and the route sampler of update_network_performance, with the  *)
(* files they read and the process-wide selected-carriers set.             *)
(*                                                                         *)
(* Text is a sequence of one-character strings ("JFK" is <<"J","F","K">>). *)
(* Python's None and pandas' NaN are the one-element sequences None and    *)
(* NaN, whose element is no character.  A float coordinate is an integer   *)
(* number of 1e-4 degrees, held as <<x>>; None in its place is <<>>.       *)
(***************************************************************************)
EXTENDS Integers, Sequences, FiniteSets, TLC

VARIABLES
    route_csv,              \* outputs/route_summary.csv: [exists, rows]
    coords_csv,             \* data/airport_coords.csv: [exists, rows]
    full_csv,               \* outputs/full_dataset_for_tableau.csv: [exists, rows]
    summaries,              \* which of outputs/airline_summary.csv, airport_summary.csv exist
    selected_carriers_set,  \* the module-level set of selected carriers
    top_n_routes,           \* value of the slider 'top-n-routes'
    route_carrier_filter,   \* value of the dropdown 'route-carrier-filter'
    selected_carriers_store,\* children of 'selected-carriers-store'
    filter_classnames,      \* className of the 'airline-filter-item' elements
    requests,               \* the toggle_airline_selection requests in progress, per session
    call,                   \* the inputs update_network_performance last ran with
    selections,             \* its locals: route_df after the filters and the three subsets
    top_routes,             \* update_network_performance: top_routes with origin/dest
    figure,                 \* the figure the callback returned
    arg,                    \* the argument of the helper under test
    ret                     \* what the helper returned

vars == <<route_csv, coords_csv, full_csv, summaries, selected_carriers_set, top_n_routes,
          route_carrier_filter, selected_carriers_store, filter_classnames, requests, call,
          selections, top_routes, figure, arg, ret>>

-----------------------------------------------------------------------------
(* Bounds of the model *)

\* longest route string handed to the parser
MaxLen == 7

\* most rows of data/airport_coords.csv
MaxCoordRows == 2

-----------------------------------------------------------------------------
(* Python values *)

None == <<"None">>

NaN == <<"NaN">>

\* pd.isna(x)
isna(x) == x = NaN \/ x = None

\* bool(x) of a text or None: None and "" are falsy
truthy(x) == x # None /\ x # <<>>

LowerLetters == <<"a","b","c","d","e","f","g","h","i","j","k","l","m",
                  "n","o","p","q","r","s","t","u","v","w","x","y","z">>

UpperLetters == <<"A","B","C","D","E","F","G","H","I","J","K","L","M",
                  "N","O","P","Q","R","S","T","U","V","W","X","Y","Z">>

Whitespace == {" ", "\t", "\n", "\r"}

LowerSet == {LowerLetters[i] : i \in 1..26}

UpperMap == [c \in LowerSet |-> UpperLetters[CHOOSE i \in 1..26 : LowerLetters[i] = c]]

\* str.upper() on one character
UpperChar(c) == IF c \in LowerSet THEN UpperMap[c] ELSE c

\* str.upper()
upper(s) == [i \in 1..Len(s) |-> UpperChar(s[i])]

RECURSIVE lstrip(_)
lstrip(s) == IF s # <<>> /\ Head(s) \in Whitespace THEN lstrip(Tail(s)) ELSE s

RECURSIVE rstrip(_)
rstrip(s) ==
    IF s # <<>> /\ s[Len(s)] \in Whitespace THEN rstrip(SubSeq(s, 1, Len(s) - 1)) ELSE s

\* str.strip()
strip(s) == rstrip(lstrip(s))

RECURSIVE SplitAcc(_, _, _, _)
SplitAcc(s, sep, cur, parts) ==
    IF s = <<>> THEN Append(parts, cur)
    ELSE IF Head(s) = sep THEN SplitAcc(Tail(s), sep, <<>>, Append(parts, cur))
    ELSE SplitAcc(Tail(s), sep, Append(cur, Head(s)), parts)

\* str.split(sep): every occurrence of sep separates two parts
str_split(s, sep) == SplitAcc(s, sep, <<>>, <<>>)

\* str.split(sep, 1): only the first occurrence of sep separates
str_split_once(s, sep) ==
    IF \E i \in 1..Len(s) : s[i] = sep
    THEN LET i == CHOOSE k \in 1..Len(s) : s[k] = sep /\ \A j \in 1..(k - 1) : s[j] # sep
         IN  <<SubSeq(s, 1, i - 1), SubSeq(s, i + 1, Len(s))>>
    ELSE <<s>>

-----------------------------------------------------------------------------
(* Route parser *)

\* the parser with split('-', 1): the destination keeps every later dash
parse_route_codes_maxsplit(route_str) ==
    IF isna(route_str) THEN <<None, None>>
    ELSE LET parts == str_split_once(route_str, "-")
         IN  IF Len(parts) >= 2
             THEN <<upper(strip(parts[1])), upper(strip(parts[2]))>>
             ELSE <<None, None>>

\* the parser without the upper() calls
parse_route_codes_noupper(route_str) ==
    IF isna(route_str) THEN <<None, None>>
    ELSE LET parts == str_split(route_str, "-")
         IN  IF Len(parts) >= 2
             THEN <<strip(parts[1]), strip(parts[2])>>
             ELSE <<None, None>>

parse_route_codes(route_str) ==
    IF isna(route_str) THEN <<None, None>>
    ELSE LET parts == str_split(route_str, "-")
         IN  IF Len(parts) >= 2
             THEN <<upper(strip(parts[1])), upper(strip(parts[2]))>>
             ELSE <<None, None>>

-----------------------------------------------------------------------------
(* Coordinate resolver *)

JFK == <<"J","F","K">>
LAX == <<"L","A","X">>
BOS == <<"B","O","S">>
MIA == <<"M","I","A">>
ZZZ == <<"Z","Z","Z">>
jfk == <<"j","f","k">>

\* None where a float is expected
NoCoord == <<>>

\* four of the entries of the hardcoded table, in 1e-4 degrees
FALLBACK_AIRPORT_COORDS ==
    (JFK :> <<406413, -737781>>) @@ (LAX :> <<339416, -1184085>>) @@
    (BOS :> <<423656, -710096>>) @@ (MIA :> <<257959, -802870>>)

\* coords_df[coords_df['iata'] == airport_code]
CoordMatch(rows, airport_code) == SelectSeq(rows, LAMBDA r : r.iata = airport_code)

\* the resolver asking the hardcoded table first
get_coordinates_fallback_first(airport_code, coords) ==
    IF ~truthy(airport_code) THEN <<NoCoord, NoCoord>>
    ELSE IF airport_code \in DOMAIN FALLBACK_AIRPORT_COORDS
         THEN <<<<FALLBACK_AIRPORT_COORDS[airport_code][1]>>,
                <<FALLBACK_AIRPORT_COORDS[airport_code][2]>>>>
    ELSE IF coords.exists /\ CoordMatch(coords.rows, airport_code) # <<>>
         THEN LET match == CoordMatch(coords.rows, airport_code)
              IN  <<<<match[1].lat>>, <<match[1].lon>>>>
    ELSE <<NoCoord, NoCoord>>

\* the resolver comparing codes without regard to case
get_coordinates_nocase(airport_code, coords) ==
    IF ~truthy(airport_code) THEN <<NoCoord, NoCoord>>
    ELSE LET match == SelectSeq(coords.rows, LAMBDA r : upper(r.iata) = upper(airport_code))
         IN  IF coords.exists /\ match # <<>>
             THEN <<<<match[1].lat>>, <<match[1].lon>>>>
             ELSE IF upper(airport_code) \in DOMAIN FALLBACK_AIRPORT_COORDS
                  THEN <<<<FALLBACK_AIRPORT_COORDS[upper(airport_code)][1]>>,
                         <<FALLBACK_AIRPORT_COORDS[upper(airport_code)][2]>>>>
                  ELSE <<NoCoord, NoCoord>>

\* A resolved coordinate is the one-element sequence <<x>>; an unresolved one is NoCoord.
get_coordinates(airport_code, coords) ==
    IF ~truthy(airport_code) THEN <<NoCoord, NoCoord>>
    ELSE IF coords.exists /\ CoordMatch(coords.rows, airport_code) # <<>>
         THEN LET match == CoordMatch(coords.rows, airport_code)
              IN  <<<<match[1].lat>>, <<match[1].lon>>>>
    ELSE IF airport_code \in DOMAIN FALLBACK_AIRPORT_COORDS
         THEN <<<<FALLBACK_AIRPORT_COORDS[airport_code][1]>>,
                <<FALLBACK_AIRPORT_COORDS[airport_code][2]>>>>
    ELSE <<NoCoord, NoCoord>>

-----------------------------------------------------------------------------
(* JSON text of the selected-carriers store: a sequence of tokens, "[", "]", *)
(* "," and the string literals between them                                  *)

Range(f) == {f[i] : i \in DOMAIN f}

JsonPunctuation == {"[", "]", ","}

RECURSIVE JoinItems(_)
JoinItems(items) ==
    IF items = <<>> THEN <<>>
    ELSE IF Len(items) = 1 THEN <<items[1]>>
    ELSE <<items[1], ",">> \o JoinItems(Tail(items))

\* json.dumps(a list of strings)
json_dumps(items) == <<"[">> \o JoinItems(items) \o <<"]">>

\* json.loads succeeds on the text of a list of strings
JsonIsList(text) ==
    /\ Len(text) >= 2
    /\ text[1] = "[" /\ text[Len(text)] = "]"
    /\ LET inner == SubSeq(text, 2, Len(text) - 1)
       IN  /\ inner = <<>> \/ Len(inner) % 2 = 1
           /\ \A i \in 1..Len(inner) :
                 IF i % 2 = 1 THEN inner[i] \notin JsonPunctuation ELSE inner[i] = ","

\* json.loads(text) where it succeeds: the items of the list
json_loads(text) ==
    LET inner == SubSeq(text, 2, Len(text) - 1)
    IN  [k \in 1..((Len(inner) + 1) \div 2) |-> inner[2 * k - 1]]

-----------------------------------------------------------------------------
(* The carrier legend: toggle_airline_selection *)

\* sorted(airline_df['Carrier'].unique()): the carriers of the legend, in its order
Carriers == <<"AA", "DL">>

ACTIVE == "airline-key-item-premium airline-key-clickable active"

INACTIVE == "airline-key-item-premium airline-key-clickable"

\* the legend as the layout builds it: every item active
AllActive == [i \in 1..Len(Carriers) |-> ACTIVE]

\* list(s) of a set: its elements in an order the hash table decides
ListsOf(s) == {l \in [1..Cardinality(s) -> s] : Range(l) = s}

\* ctx.triggered_id when no element triggered the callback (page load)
NoTriggeredId == "None"

\* the handler selecting the clicked carrier alone instead of toggling it
ToggleAirlineSelectionSelectOnly(triggered_id, own_browser) ==
    LET after == IF triggered_id = NoTriggeredId THEN selected_carriers_set ELSE {triggered_id}
        classnames == IF triggered_id = NoTriggeredId THEN AllActive
                      ELSE [i \in 1..Len(Carriers) |->
                              IF Carriers[i] \in after THEN ACTIVE ELSE INACTIVE]
    IN  /\ selected_carriers_set' = after
        /\ IF own_browser
           THEN /\ filter_classnames' = classnames
                /\ \E l \in ListsOf(after) : selected_carriers_store' = json_dumps(l)
           ELSE UNCHANGED <<filter_classnames, selected_carriers_store>>

\* the handler's body.  triggered_id is NoTriggeredId on page load and the clicked
\* carrier otherwise; the two outputs go to the browser that sent the request,
\* the process-wide set is the same for every browser.
ToggleAirlineSelection(triggered_id, own_browser) ==
    LET toggled == IF triggered_id \in selected_carriers_set
                   THEN selected_carriers_set \ {triggered_id}
                   ELSE selected_carriers_set \cup {triggered_id}
        after == IF triggered_id = NoTriggeredId THEN selected_carriers_set ELSE toggled
        classnames == IF triggered_id = NoTriggeredId THEN AllActive
                      ELSE [i \in 1..Len(Carriers) |->
                              IF Carriers[i] \in after THEN ACTIVE ELSE INACTIVE]
    IN  /\ selected_carriers_set' = after
        /\ IF own_browser
           THEN /\ filter_classnames' = classnames
                /\ \E l \in ListsOf(after) : selected_carriers_store' = json_dumps(l)
           ELSE UNCHANGED <<filter_classnames, selected_carriers_store>>

\* the browser sessions served by the one process
Sessions == {1, 2}

\* a session's request: where its handler stands, ctx.triggered_id['index'], what
\* the membership test of line 651 found, how the request ended ("200" with the
\* two outputs, "KeyError" without) and the outputs last returned to the session
NoRequests ==
    [s \in Sessions |->
        [pc |-> "idle", clicked_carrier |-> NoTriggeredId, present |-> FALSE,
         outcome |-> "none", classnames |-> AllActive, store |-> None]]

\* the update after a test that is made again at the moment of the update
ToggleCarrierRetest(carriers, clicked_carrier, present) ==
    IF clicked_carrier \in carriers
    THEN [raised |-> FALSE, set |-> carriers \ {clicked_carrier}]
    ELSE [raised |-> FALSE, set |-> carriers \cup {clicked_carrier}]

\* lines 652 and 654: set.remove when the test of line 651 found the carrier,
\* set.add when it did not; set.remove of an element that is gone raises KeyError
ToggleCarrier(carriers, clicked_carrier, present) ==
    IF present
    THEN IF clicked_carrier \in carriers
         THEN [raised |-> FALSE, set |-> carriers \ {clicked_carrier}]
         ELSE [raised |-> TRUE, set |-> carriers]
    ELSE [raised |-> FALSE, set |-> carriers \cup {clicked_carrier}]

\* the class names of lines 657-663
ClassnamesOf(carriers) ==
    [i \in 1..Len(Carriers) |-> IF Carriers[i] \in carriers THEN ACTIVE ELSE INACTIVE]

\* a page load of session s: lines 641-644, no step of which writes the set
PageLoad(s) ==
    /\ requests[s].pc = "idle"
    /\ \E l \in ListsOf(selected_carriers_set) :
          requests' = [requests EXCEPT ![s] =
                          [pc |-> "idle", clicked_carrier |-> NoTriggeredId, present |-> FALSE,
                           outcome |-> "200", classnames |-> AllActive, store |-> json_dumps(l)]]
    /\ UNCHANGED selected_carriers_set

\* a click of session s on a legend item: the handler starts, lines 647-648
Click(s) ==
    /\ requests[s].pc = "idle"
    /\ \E clicked_carrier \in Range(Carriers) :
          requests' = [requests EXCEPT ![s] =
                          [@ EXCEPT !.pc = "test", !.clicked_carrier = clicked_carrier,
                                    !.present = FALSE, !.outcome = "none"]]
    /\ UNCHANGED selected_carriers_set

\* line 651: clicked_carrier in selected_carriers_set
TestMembership(s) ==
    /\ requests[s].pc = "test"
    /\ requests' = [requests EXCEPT ![s] =
                       [@ EXCEPT !.pc = "update",
                                 !.present = requests[s].clicked_carrier \in selected_carriers_set]]
    /\ UNCHANGED selected_carriers_set

\* line 652 or line 654, on the set as it is now
UpdateSet(s) ==
    /\ requests[s].pc = "update"
    /\ LET toggled == ToggleCarrier(selected_carriers_set, requests[s].clicked_carrier,
                                    requests[s].present)
       IN  /\ selected_carriers_set' = toggled.set
           /\ requests' = [requests EXCEPT ![s] =
                              IF toggled.raised
                              THEN [@ EXCEPT !.pc = "idle", !.outcome = "KeyError"]
                              ELSE [@ EXCEPT !.pc = "respond"]]

\* lines 657-665: the class names and the store from the set as it is now
Respond(s) ==
    /\ requests[s].pc = "respond"
    /\ \E l \in ListsOf(selected_carriers_set) :
          requests' = [requests EXCEPT ![s] =
                          [@ EXCEPT !.pc = "idle", !.outcome = "200",
                                    !.classnames = ClassnamesOf(selected_carriers_set),
                                    !.store = json_dumps(l)]]
    /\ UNCHANGED selected_carriers_set

-----------------------------------------------------------------------------
(* Route sampler *)

MIN_FLIGHTS == 25

\* NaN in a numeric column; no file of the model holds a negative number
NaNNum == -1

Min(a, b) == IF a <= b THEN a ELSE b

\* pd.read_csv: the rows, labelled 0, 1, ... by the default RangeIndex
read_csv(file) ==
    [i \in 1..Len(file.rows) |->
        [index |-> i - 1,
         route |-> file.rows[i].route,
         primary_carrier |-> file.rows[i].primary_carrier,
         num_flights |-> file.rows[i].num_flights,
         total_delay_cost |-> file.rows[i].total_delay_cost]]

\* selected: json.loads of the store, None when it is empty or does not parse
SelectedFromStore(selected_carriers_json) ==
    IF truthy(selected_carriers_json)
    THEN IF JsonIsList(selected_carriers_json) THEN json_loads(selected_carriers_json) ELSE None
    ELSE None

\* the carrier filter reading the process-wide set instead of the store it was handed
CarriersToFilterGlobal(carrier_filter, selected_carriers_json) ==
    IF truthy(carrier_filter) THEN carrier_filter
    ELSE CHOOSE l \in [1..Cardinality(selected_carriers_set) -> selected_carriers_set] :
            Range(l) = selected_carriers_set

\* the carrier filter with the store taking precedence over the dropdown
CarriersToFilterStoreFirst(carrier_filter, selected_carriers_json) ==
    IF truthy(SelectedFromStore(selected_carriers_json))
    THEN SelectedFromStore(selected_carriers_json)
    ELSE carrier_filter

\* carriers_to_filter
CarriersToFilter(carrier_filter, selected_carriers_json) ==
    IF truthy(carrier_filter) THEN carrier_filter ELSE SelectedFromStore(selected_carriers_json)

\* the filters without the carrier filter
EligibleRoutesNoCarrier(df, carrier_filter, selected_carriers_json) ==
    SelectSeq(df, LAMBDA r : r.num_flights >= MIN_FLIGHTS)

\* the filters without the minimum number of flights
EligibleRoutesNoMinimum(df, carrier_filter, selected_carriers_json) ==
    LET carriers_to_filter == CarriersToFilter(carrier_filter, selected_carriers_json)
    IN  IF truthy(carriers_to_filter)
        THEN SelectSeq(df, LAMBDA r : r.primary_carrier \in Range(carriers_to_filter))
        ELSE df

\* route_df after the minimum-flights filter and the carrier filter
EligibleRoutes(df, carrier_filter, selected_carriers_json) ==
    LET big == SelectSeq(df, LAMBDA r : r.num_flights >= MIN_FLIGHTS)
        carriers_to_filter == CarriersToFilter(carrier_filter, selected_carriers_json)
    IN  IF truthy(carriers_to_filter)
        THEN SelectSeq(big, LAMBDA r : r.primary_carrier \in Range(carriers_to_filter))
        ELSE big

\* the rows that nlargest puts before row i: a larger value of column col, or
\* the same value earlier in the frame (keep='first')
RankedBefore(df, col, i) ==
    {j \in 1..Len(df) : df[j][col] > df[i][col] \/ (df[j][col] = df[i][col] /\ j < i)}

\* DataFrame.nlargest(n, col): the n rows with the largest values, largest first
nlargest(df, n, col) ==
    [k \in 1..(IF n <= 0 THEN 0 ELSE Min(n, Len(df))) |->
        df[CHOOSE i \in 1..Len(df) : Cardinality(RankedBefore(df, col, i)) = k - 1]]

\* np.random.RandomState(42).permutation(n), n = 0..8 (positions from 0)
Permutation42 ==
    <<  <<0>>,
        <<1, 0>>,
        <<0, 1, 2>>,
        <<1, 3, 0, 2>>,
        <<1, 4, 2, 0, 3>>,
        <<0, 1, 5, 2, 4, 3>>,
        <<0, 1, 5, 2, 4, 3, 6>>,
        <<1, 5, 0, 7, 2, 4, 3, 6>> >>

\* DataFrame.sample(k, random_state=42): the rows at the first k positions of the
\* seeded permutation of the frame's positions
sample(df, k) == [i \in 1..k |-> df[Permutation42[Len(df)][i] + 1]]

\* DataFrame.drop_duplicates(subset=['route']): the first row of each route
drop_duplicates(df) ==
    LET first == {i \in 1..Len(df) : \A j \in 1..(i - 1) : df[j].route # df[i].route}
    IN  [k \in 1..Cardinality(first) |->
            df[CHOOSE i \in first : Cardinality({j \in first : j < i}) = k - 1]]

\* DataFrame.head(n), n >= 0
head(df, n) == SubSeq(df, 1, Min(n, Len(df)))

\* int(top_n * 0.4) and int(top_n * 0.2), top_n >= 0
Int04(top_n) == (4 * top_n) \div 10

Int02(top_n) == (2 * top_n) \div 10

CostRoutes(df, top_n) == nlargest(df, Int04(top_n), "total_delay_cost")

VolumeRoutes(df, top_n) == nlargest(df, Int04(top_n), "num_flights")

RemainingRoutes(df, top_n) ==
    LET used_routes == {r.route : r \in Range(CostRoutes(df, top_n) \o VolumeRoutes(df, top_n))}
    IN  SelectSeq(df, LAMBDA r : r.route \notin used_routes)

\* the diversity sample drawn from the whole table
DiversityRoutesFromAll(df, top_n) ==
    IF Len(df) > 0 THEN sample(df, Min(Int02(top_n), Len(df))) ELSE <<>>

DiversityRoutes(df, top_n) ==
    LET remaining_routes == RemainingRoutes(df, top_n)
    IN  IF Len(remaining_routes) > 0
        THEN sample(remaining_routes, Min(Int02(top_n), Len(remaining_routes)))
        ELSE <<>>

\* the sampler without drop_duplicates
SampleRoutesNoDedup(df, top_n) ==
    head(CostRoutes(df, top_n) \o VolumeRoutes(df, top_n) \o DiversityRoutes(df, top_n), top_n)

\* the sampler cutting the union to the size of one ranked subset
SampleRoutesShortHead(df, top_n) ==
    head(drop_duplicates(CostRoutes(df, top_n) \o VolumeRoutes(df, top_n)
                         \o DiversityRoutes(df, top_n)), Int04(top_n))

\* top_routes of line 1174
SampleRoutes(df, top_n) ==
    head(drop_duplicates(CostRoutes(df, top_n) \o VolumeRoutes(df, top_n)
                         \o DiversityRoutes(df, top_n)), top_n)

-----------------------------------------------------------------------------
(* update_network_performance: from the files to the figure *)

\* top_routes of line 1193: pd.concat(axis=1) of the sampled rows, relabelled
\* 0..k-1, with the parsed codes, which keep the labels of route_df.  The two
\* are joined on the label: label i < k carries the i-th sampled row and the
\* codes parsed from the sampled row whose route_df label is i (NaN when there
\* is none); every sampled row whose label is >= k adds a row of NaN columns
\* with its parsed codes.
MergeParsed(sampled) ==
    LET k == Len(sampled)
        parsed == [j \in 1..k |-> parse_route_codes(sampled[j].route)]
        codes_at(label) ==
            IF \E j \in 1..k : sampled[j].index = label
            THEN parsed[CHOOSE j \in 1..k : sampled[j].index = label]
            ELSE <<NaN, NaN>>
        relabelled ==
            [i \in 1..k |->
                [route |-> sampled[i].route,
                 primary_carrier |-> sampled[i].primary_carrier,
                 num_flights |-> sampled[i].num_flights,
                 total_delay_cost |-> sampled[i].total_delay_cost,
                 origin |-> codes_at(i - 1)[1],
                 dest |-> codes_at(i - 1)[2]]]
        beyond == {j \in 1..k : sampled[j].index >= k}
        unmatched ==
            [i \in 1..Cardinality(beyond) |->
                LET j == CHOOSE b \in beyond : Cardinality({a \in beyond : a < b}) = i - 1
                IN  [route |-> NaN,
                     primary_carrier |-> "NaN",
                     num_flights |-> NaNNum,
                     total_delay_cost |-> NaNNum,
                     origin |-> parsed[j][1],
                     dest |-> parsed[j][2]]]
    IN  relabelled \o unmatched

\* one entry of coords_data
CoordsRecord(row, coords) ==
  LET origin_coords == get_coordinates(row.origin, coords)
      dest_coords == get_coordinates(row.dest, coords)
  IN
    [route |-> row.route,
     origin |-> row.origin,
     dest |-> row.dest,
     origin_lat |-> origin_coords[1],
     origin_lon |-> origin_coords[2],
     dest_lat |-> dest_coords[1],
     dest_lon |-> dest_coords[2],
     delay_cost |-> IF row.total_delay_cost = NaNNum \/ row.total_delay_cost < 0
                    THEN 0 ELSE row.total_delay_cost,
     num_flights |-> IF row.num_flights > 0 THEN row.num_flights ELSE 0,
     carrier |-> row.primary_carrier]

\* coords_data: the rows whose four coordinates are all resolved
CoordsData(rows, coords) ==
    LET all == [i \in 1..Len(rows) |-> CoordsRecord(rows[i], coords)]
    IN  SelectSeq(all, LAMBDA c :
            /\ c.origin_lat # NoCoord /\ c.origin_lon # NoCoord
            /\ c.dest_lat # NoCoord /\ c.dest_lon # NoCoord)

\* COLORS: the entries the airport markers use
COLORS ==
    [primary |-> "#0A1F44", accent |-> "#00D9FF", text_secondary |-> "#64748B"]

\* the dict airports before the first route: no key (order is the order in which
\* the keys were inserted, which is the order the dict is iterated in)
NoAirports == [order |-> <<>>, data |-> [code \in {} |-> code]]

\* one endpoint of a route folded into airports: a new aggregate on the first
\* reference, then the route's cost and flights added and one connection counted
AddEndpoint(airports, code, lat, lon, route) ==
    LET known == code \in DOMAIN airports.data
        before == IF known THEN airports.data[code]
                  ELSE [lat |-> lat, lon |-> lon,
                        total_cost |-> 0, total_flights |-> 0, routes |-> 0]
        after == [before EXCEPT !.total_cost = @ + route.delay_cost,
                                !.total_flights = @ + route.num_flights,
                                !.routes = @ + 1]
    IN  [order |-> IF known THEN airports.order ELSE Append(airports.order, code),
         data |-> [c \in DOMAIN airports.data \cup {code} |->
                      IF c = code THEN after ELSE airports.data[c]]]

\* the aggregation counting a route once when its two endpoints are the same airport
RECURSIVE AirportsOfOncePerAirport(_)
AirportsOfOncePerAirport(routes) ==
    IF routes = <<>> THEN NoAirports
    ELSE LET route == routes[Len(routes)]
             with_origin ==
                 AddEndpoint(AirportsOfOncePerAirport(SubSeq(routes, 1, Len(routes) - 1)),
                             route.origin, route.origin_lat, route.origin_lon, route)
         IN  IF route.dest = route.origin THEN with_origin
             ELSE AddEndpoint(with_origin, route.dest, route.dest_lat, route.dest_lon, route)

\* airports after the loop over coords_df_final: every route folded into the
\* aggregate of its origin and then into the one of its destination
RECURSIVE AirportsOf(_)
AirportsOf(routes) ==
    IF routes = <<>> THEN NoAirports
    ELSE LET route == routes[Len(routes)]
             with_origin ==
                 AddEndpoint(AirportsOf(SubSeq(routes, 1, Len(routes) - 1)),
                             route.origin, route.origin_lat, route.origin_lon, route)
         IN  AddEndpoint(with_origin, route.dest, route.dest_lat, route.dest_lon, route)

Max(a, b) == IF a >= b THEN a ELSE b

RECURSIVE Sum(_)
Sum(numbers) == IF numbers = <<>> THEN 0 ELSE numbers[1] + Sum(Tail(numbers))

RECURSIVE MaxOf(_)
MaxOf(numbers) ==
    IF Len(numbers) = 1 THEN numbers[1] ELSE Max(numbers[1], MaxOf(Tail(numbers)))

\* max_airport_cost: the largest total cost, 1 when there is none above 0
MaxAirportCost(airports) ==
    LET largest == IF airports.order # <<>>
                   THEN MaxOf([i \in 1..Len(airports.order) |->
                                  airports.data[airports.order[i]].total_cost])
                   ELSE 1
    IN  IF largest <= 0 THEN 1 ELSE largest

\* thousandths of a pixel in one pixel: marker sizes are held in thousandths
MILLI == 1000

\* the marker size without the lower end of the range
MarkerSizeNoFloor(data, max_airport_cost) ==
    (20 * MILLI * data.total_cost) \div max_airport_cost

\* size = 8 + size_ratio * 20, size_ratio = total_cost / max_airport_cost kept
\* within 0..1, and the size not below 8
MarkerSize(data, max_airport_cost) ==
    LET total_cost == IF data.total_cost < 0 THEN 0 ELSE data.total_cost
        ratio_milli == (MILLI * total_cost) \div max_airport_cost
        size_ratio == IF ratio_milli < 0 THEN 0
                      ELSE IF ratio_milli > MILLI THEN MILLI ELSE ratio_milli
        size == 8 * MILLI + size_ratio * 20
    IN  IF size < 8 * MILLI THEN 8 * MILLI ELSE size

\* the marker colour with the medium tier starting at 4 connections
MarkerColorLateMedium(data) ==
    IF data.routes >= 5 THEN COLORS.primary
    ELSE IF data.routes >= 4 THEN COLORS.accent
    ELSE COLORS.text_secondary

\* the marker colour: major hub, medium hub, small airport
MarkerColor(data) ==
    IF data.routes >= 5 THEN COLORS.primary
    ELSE IF data.routes >= 3 THEN COLORS.accent
    ELSE COLORS.text_secondary

\* the airport trace: the aggregates and, in the dict's order, the markers' texts,
\* sizes and colours
AirportMarkers(routes) ==
    LET airports == AirportsOf(routes)
        max_airport_cost == MaxAirportCost(airports)
    IN  [airports |-> airports.data,
         airport_texts |-> airports.order,
         airport_sizes |-> [i \in 1..Len(airports.order) |->
                              MarkerSize(airports.data[airports.order[i]], max_airport_cost)],
         airport_colors |-> [i \in 1..Len(airports.order) |->
                               MarkerColor(airports.data[airports.order[i]])]]

\* _empty_figure(message)
EmptyFigure(message) == [kind |-> "placeholder", message |-> message, coords_data |-> <<>>]

\* an exception on its way out of a try block, e being its type and str(e)
Raise(e) == [kind |-> "raise", error |-> e]

\* a handler that lets the exception go on to its caller
TryExceptReraise(result, message) == result

\* try: ... except Exception as e: return _empty_figure(f"{message}: {str(e)}")
TryExcept(result, message) ==
    IF result.kind = "raise"
    THEN [kind |-> "placeholder", message |-> message, error |-> result.error,
          coords_data |-> <<>>]
    ELSE result

\* the columns of a csv file: all of them, unless the file names the ones it has
Columns(file, all) == IF "columns" \in DOMAIN file THEN file.columns ELSE all

RouteColumns == {"route", "primary_carrier", "num_flights", "total_delay_cost"}

\* outputs/airline_summary.csv and outputs/airport_summary.csv are both there
BothSummaries == [airline_summary |-> TRUE, airport_summary |-> TRUE]

NotCalled == <<>>

NoFile == [exists |-> FALSE, rows |-> <<>>]

NoCall == [fn |-> "none", top_n |-> 0, carrier_filter |-> <<>>, selected_carriers_json |-> None]

NoFigure == [kind |-> "none", message |-> "", coords_data |-> <<>>]

NoSelections ==
    [route_df |-> <<>>, cost_routes |-> <<>>, volume_routes |-> <<>>, diversity_routes |-> <<>>]

\* the map returned with an empty list of routes
MapFigureUnchecked(coords_data) ==
    [kind |-> "map", message |-> "", coords_data |-> coords_data,
     markers |-> AirportMarkers(coords_data)]

\* lines 1239-1459: the placeholder when coords_data is empty, the map otherwise
MapFigure(coords_data) ==
    IF coords_data = <<>>
    THEN EmptyFigure("No coordinate data available for routes")
    ELSE [kind |-> "map", message |-> "", coords_data |-> coords_data,
          markers |-> AirportMarkers(coords_data)]

\* the first exception of the try block on the route file, "" when there is none:
\* read_csv on a file without a header, then the columns the body indexes
\* (value_col falls back on 'avg_delay_cost', a column no file of the model has)
NetworkPerformanceRaises(file) ==
    LET columns == Columns(file, RouteColumns)
    IN  IF columns = {} THEN "EmptyDataError: No columns to parse from file"
        ELSE IF file.rows = <<>> THEN ""
        ELSE IF "num_flights" \notin columns THEN "KeyError: 'num_flights'"
        ELSE IF "total_delay_cost" \notin columns THEN "KeyError: 'avg_delay_cost'"
        ELSE IF "route" \notin columns THEN "KeyError: 'route'"
        ELSE ""

\* the callback's body on its three inputs
NetworkPerformance(top_n, carrier_filter, selected_carriers_json) ==
    LET route_df == read_csv(route_csv)
        eligible == IF "primary_carrier" \in Columns(route_csv, RouteColumns)
                    THEN EligibleRoutes(route_df, carrier_filter, selected_carriers_json)
                    ELSE EligibleRoutes(route_df, <<>>, None)
        sampled == SampleRoutes(eligible, top_n)
        coords_data == CoordsData(MergeParsed(sampled), coords_csv)
        raised == NetworkPerformanceRaises(route_csv)
        returns == raised = "" /\ route_df # <<>>
        body == IF raised # "" THEN Raise(raised)
                ELSE IF route_df = <<>> THEN EmptyFigure("Route summary CSV is empty")
                ELSE MapFigure(coords_data)
    IN  /\ call' = [fn |-> "update_network_performance", top_n |-> top_n,
                    carrier_filter |-> carrier_filter,
                    selected_carriers_json |-> selected_carriers_json]
        /\ IF ~route_csv.exists
           THEN /\ selections' = NoSelections
                /\ top_routes' = <<>>
                /\ figure' = EmptyFigure("Route summary CSV not found (outputs/route_summary.csv)")
           ELSE /\ selections' = IF returns
                                 THEN [route_df |-> eligible,
                                       cost_routes |-> CostRoutes(eligible, top_n),
                                       volume_routes |-> VolumeRoutes(eligible, top_n),
                                       diversity_routes |-> DiversityRoutes(eligible, top_n)]
                                 ELSE NoSelections
                /\ top_routes' = IF returns THEN sampled ELSE <<>>
                /\ figure' = TryExcept(body, "Error creating network map")

\* Dash runs the callback on the current values of its three Inputs
update_network_performance ==
    /\ NetworkPerformance(top_n_routes, route_carrier_filter, selected_carriers_store)
    /\ UNCHANGED <<route_csv, coords_csv, full_csv, summaries, requests, selected_carriers_set, top_n_routes,
                   route_carrier_filter, selected_carriers_store, filter_classnames, arg, ret>>

-----------------------------------------------------------------------------
(* The files and the inputs the map callback is run on *)

\* most rows of outputs/route_summary.csv
MaxRoutes == 4

\* largest value of the routes slider
MaxTopN == 10

Route(origin, dest) == origin \o <<"-">> \o dest

RouteNames ==
    <<Route(JFK, LAX), Route(BOS, MIA), Route(LAX, JFK), Route(MIA, BOS),
      Route(JFK, BOS), Route(LAX, MIA), Route(BOS, JFK), Route(MIA, LAX)>>

CarrierAt(i) == Carriers[2 - (i % 2)]

DelayCosts == {200, 50000}

\* <<num_flights, total_delay_cost>> of a row: below the minimum, or at or above
\* it with few or many flights and a low or high cost
RowMetrics == {<<10, 200>>, <<30, 200>>, <<30, 50000>>, <<500, 200>>, <<500, 50000>>}

\* tables of well-formed routes under every combination of row metrics
SamplerTables ==
    UNION {
        {[exists |-> TRUE,
          rows |-> [i \in 1..n |->
                      [route |-> RouteNames[i], primary_carrier |-> CarrierAt(i),
                       num_flights |-> m[i][1], total_delay_cost |-> m[i][2]]]]
            : m \in [1..n -> RowMetrics]}
        : n \in 0..Min(MaxRoutes, Len(RouteNames))}

\* longer tables whose rows all have the same metrics: every ranking is a tie
\* and the ranked subsets leave a remainder
UniformTables ==
    {[exists |-> TRUE,
      rows |-> [i \in 1..n |->
                  [route |-> RouteNames[i], primary_carrier |-> CarrierAt(i),
                   num_flights |-> m[1], total_delay_cost |-> m[2]]]]
        : n \in (MaxRoutes + 1)..Min(MaxRoutes + 2, Len(RouteNames)),
          m \in {x \in RowMetrics : x[1] >= MIN_FLIGHTS}}

\* route strings, well-formed and not
RoutePool ==
    <<Route(JFK, LAX), Route(ZZZ, LAX), Route(<<>>, LAX), Route(JFK, <<>>),
      JFK \o LAX, NaN, <<" ">> \o Route(jfk, <<" ", "b", "o", "s", " ">>)>>

\* the numbers of S in ascending order
Ascending(S) ==
    [i \in 1..Cardinality(S) |-> CHOOSE x \in S : Cardinality({y \in S : y < x}) = i - 1]

\* tables of routes of the pool, in the pool's order, each with either cost
MapTables ==
    UNION {
        {[exists |-> TRUE,
          rows |-> [i \in 1..Cardinality(S) |->
                      [route |-> RoutePool[Ascending(S)[i]], primary_carrier |-> "AA",
                       num_flights |-> 30, total_delay_cost |-> c[Ascending(S)[i]]]]]
            : c \in [S -> DelayCosts]}
        : S \in {T \in SUBSET (1..Len(RoutePool)) : Cardinality(T) <= MaxRoutes}}

MapCoordTables ==
    {NoFile,
     [exists |-> TRUE, rows |-> <<[iata |-> ZZZ, lat |-> 10, lon |-> 20]>>],
     [exists |-> TRUE, rows |-> <<[iata |-> JFK, lat |-> 10, lon |-> 20]>>]}

\* The slider offers the multiples of its step, 50, for which 0.4 * N and
\* 0.2 * N are whole numbers; the model keeps that with the multiples of 5.
TopNValues == {n \in 1..MaxTopN : n % 5 = 0}

\* a store text that json.loads rejects
BrokenJson == <<"[", "AA">>

\* the files are those of a deployment and the three inputs those of a session
\* in progress: tables of well-formed routes under every filter, tables of
\* all kinds of route strings without a filter, or no route file at all
Init ==
    /\ \/ /\ route_csv \in SamplerTables \cup UniformTables
          /\ coords_csv = NoFile
          /\ \E inputs \in {<<<<>>, None>>, <<<<"AA">>, None>>, <<<<>>, json_dumps(<<"DL">>)>>} :
                /\ route_carrier_filter = inputs[1]
                /\ selected_carriers_store = inputs[2]
       \/ /\ route_csv \in MapTables
          /\ coords_csv \in MapCoordTables
          /\ route_carrier_filter = <<>>
          /\ selected_carriers_store = None
       \/ /\ route_csv \in {NoFile, [exists |-> TRUE, rows |-> <<>>]}
          /\ coords_csv = NoFile
          /\ route_carrier_filter \in {<<>>, <<"AA">>}
          /\ selected_carriers_store \in {None, json_dumps(<<>>), BrokenJson}
    /\ top_n_routes \in TopNValues
    /\ selected_carriers_set = Range(Carriers)
    /\ filter_classnames = AllActive
    /\ call = NoCall
    /\ full_csv = NoFile
    /\ summaries = BothSummaries
    /\ requests = NoRequests
    /\ selections = NoSelections
    /\ top_routes = <<>>
    /\ figure = NoFigure
    /\ arg = None
    /\ ret = NotCalled

Next == update_network_performance

Spec == Init /\ [][Next]_vars

-----------------------------------------------------------------------------
(* The helpers on their own: one call on an argument drawn from a bounded set *)

Alphabet == {"a", "B", "-", " "}

RouteStrings == UNION {[1..n -> Alphabet] : n \in 0..MaxLen} \cup {NaN, None}

InitParser ==
    /\ arg \in RouteStrings
    /\ ret = NotCalled
    /\ route_csv = NoFile
    /\ coords_csv = NoFile
    /\ selected_carriers_set = {}
    /\ top_n_routes = 0
    /\ route_carrier_filter = <<>>
    /\ selected_carriers_store = None
    /\ filter_classnames = AllActive
    /\ call = NoCall
    /\ full_csv = NoFile
    /\ summaries = BothSummaries
    /\ requests = NoRequests
    /\ selections = NoSelections
    /\ top_routes = <<>>
    /\ figure = NoFigure

ParseRoute ==
    /\ ret = NotCalled
    /\ ret' = parse_route_codes(arg)
    /\ UNCHANGED <<route_csv, coords_csv, full_csv, summaries, requests, selected_carriers_set, top_n_routes,
                   route_carrier_filter, selected_carriers_store, filter_classnames,
                   call, selections, top_routes, figure, arg>>

NextParser == ParseRoute

SpecParser == InitParser /\ [][NextParser]_vars

CoordRows == [iata : {JFK, jfk, ZZZ}, lat : {10, 30}, lon : {20}]

CoordTables ==
    {NoFile} \cup
    {[exists |-> TRUE, rows |-> r] : r \in UNION {[1..n -> CoordRows] : n \in 0..MaxCoordRows}}

AirportCodes == {JFK, jfk, LAX, BOS, ZZZ, <<>>, None}

InitResolver ==
    /\ arg \in AirportCodes
    /\ ret = NotCalled
    /\ route_csv = NoFile
    /\ coords_csv \in CoordTables
    /\ selected_carriers_set = {}
    /\ top_n_routes = 0
    /\ route_carrier_filter = <<>>
    /\ selected_carriers_store = None
    /\ filter_classnames = AllActive
    /\ call = NoCall
    /\ full_csv = NoFile
    /\ summaries = BothSummaries
    /\ requests = NoRequests
    /\ selections = NoSelections
    /\ top_routes = <<>>
    /\ figure = NoFigure

ResolveCode ==
    /\ ret = NotCalled
    /\ ret' = get_coordinates(arg, coords_csv)
    /\ UNCHANGED <<route_csv, coords_csv, full_csv, summaries, requests, selected_carriers_set, top_n_routes,
                   route_carrier_filter, selected_carriers_store, filter_classnames,
                   call, selections, top_routes, figure, arg>>

NextResolver == ResolveCode

SpecResolver == InitResolver /\ [][NextResolver]_vars

\* most routes of coords_df_final handed to the airport aggregation
MaxRendered == 5

AirportPool == <<JFK, LAX, BOS>>

\* <<num_flights, delay_cost>> of a rendered route
RenderedMetrics == {<<0, 0>>, <<30, 200>>, <<500, 50000>>}

\* the p-th pair of airports of the pool, a pair of one airport with itself included
RenderedRoute(p, m) ==
    LET origin == AirportPool[((p - 1) \div Len(AirportPool)) + 1]
        dest == AirportPool[((p - 1) % Len(AirportPool)) + 1]
    IN  CoordsRecord([route |-> Route(origin, dest), origin |-> origin, dest |-> dest,
                      num_flights |-> m[1], total_delay_cost |-> m[2],
                      primary_carrier |-> "AA"], NoFile)

\* sets of at most MaxRendered pairs of airports of the pool
RenderedPairs ==
    {T \in SUBSET (1..(Len(AirportPool) * Len(AirportPool))) : Cardinality(T) <= MaxRendered}

\* coords_df_final: up to MaxRendered different routes between the airports of the
\* pool, under every combination of metrics
InitAirports ==
    /\ \E S \in RenderedPairs :
          \E m \in [1..Cardinality(S) -> RenderedMetrics] :
              arg = [i \in 1..Cardinality(S) |-> RenderedRoute(Ascending(S)[i], m[i])]
    /\ ret = NotCalled
    /\ route_csv = NoFile
    /\ coords_csv = NoFile
    /\ selected_carriers_set = {}
    /\ top_n_routes = 0
    /\ route_carrier_filter = <<>>
    /\ selected_carriers_store = None
    /\ filter_classnames = AllActive
    /\ call = NoCall
    /\ full_csv = NoFile
    /\ summaries = BothSummaries
    /\ requests = NoRequests
    /\ selections = NoSelections
    /\ top_routes = <<>>
    /\ figure = NoFigure

AggregateAirports ==
    /\ ret = NotCalled
    /\ ret' = AirportMarkers(arg)
    /\ UNCHANGED <<route_csv, coords_csv, full_csv, summaries, requests, selected_carriers_set, top_n_routes,
                   route_carrier_filter, selected_carriers_store, filter_classnames,
                   call, selections, top_routes, figure, arg>>

NextAirports == AggregateAirports

SpecAirports == InitAirports /\ [][NextAirports]_vars

-----------------------------------------------------------------------------
(* update_route_analysis: month_matrix, the calendar grid of one month *)

\* a cell of the grid is <<v>> for the float v, and Pad for None
Pad == <<>>

IsLeapYear(year) == (year % 4 = 0 /\ year % 100 # 0) \/ year % 400 = 0

\* the day of first + pd.offsets.MonthEnd(0)
DaysInMonth(year, month) ==
    IF month = 2 THEN (IF IsLeapYear(year) THEN 29 ELSE 28)
    ELSE IF month \in {4, 6, 9, 11} THEN 30 ELSE 31

\* days from 1 January of year 1 to 1 January of the year
DaysBeforeYear(year) ==
    LET y == year - 1 IN y * 365 + (y \div 4) - (y \div 100) + (y \div 400)

RECURSIVE DaysBeforeMonth(_, _)
DaysBeforeMonth(year, month) ==
    IF month = 1 THEN 0
    ELSE DaysBeforeMonth(year, month - 1) + DaysInMonth(year, month - 1)

\* pd.Timestamp(year, month, day).weekday(): Monday is 0, Sunday is 6
\* (1 January of year 1 is a Monday)
weekday(year, month, day) ==
    (DaysBeforeYear(year) + DaysBeforeMonth(year, month) + day - 1) % 7

\* the loop over all_days from day d on: the day's cost, or 0.0 without a record,
\* is appended to the week, and a week of 7 cells is moved to mat
RECURSIVE WeeksLoop(_, _, _, _, _)
WeeksLoop(df_month, d, last, mat, week) ==
    IF d > last THEN [mat |-> mat, week |-> week]
    ELSE LET val == SelectSeq(df_month, LAMBDA r : r.date.day = d)
             v == IF val # <<>> THEN <<val[1].delay_cost>> ELSE <<0>>
             longer == Append(week, v)
         IN  IF Len(longer) = 7
             THEN WeeksLoop(df_month, d + 1, last, Append(mat, longer), <<>>)
             ELSE WeeksLoop(df_month, d + 1, last, mat, longer)

\* the grid whose first week starts on day 1, without padding
month_matrix_no_start_pad(df_month) ==
    LET last == DaysInMonth(df_month[1].date.year, df_month[1].date.month)
        loop == WeeksLoop(df_month, 1, last, <<>>, <<>>)
    IN  IF loop.week # <<>>
        THEN Append(loop.mat, loop.week \o [i \in 1..(7 - Len(loop.week)) |-> Pad])
        ELSE loop.mat

\* the grid that always ends with the padded rest of the last week
month_matrix_keep_empty_week(df_month) ==
    LET year == df_month[1].date.year
        month == df_month[1].date.month
        loop == WeeksLoop(df_month, 1, DaysInMonth(year, month), <<>>,
                          [i \in 1..weekday(year, month, 1) |-> Pad])
    IN  Append(loop.mat, loop.week \o [i \in 1..(7 - Len(loop.week)) |-> Pad])

\* the grid with None for a day without a record
month_matrix_missing_as_none(df_month) ==
    LET year == df_month[1].date.year
        month == df_month[1].date.month
        first_weekday == weekday(year, month, 1)
        loop == WeeksLoop(df_month, 1, DaysInMonth(year, month), <<>>,
                          [i \in 1..first_weekday |-> Pad])
        mat == IF loop.week # <<>>
               THEN Append(loop.mat, loop.week \o [i \in 1..(7 - Len(loop.week)) |-> Pad])
               ELSE loop.mat
    IN  [w \in 1..Len(mat) |->
            [c \in 1..7 |->
                IF \E i \in 1..Len(df_month) :
                      df_month[i].date.day = 7 * (w - 1) + c - first_weekday
                THEN mat[w][c] ELSE Pad]]

\* month_matrix(df_month): the weeks of the month of the first record, Monday
\* first, padded with None before day 1 and after the last day
month_matrix(df_month) ==
    LET year == df_month[1].date.year
        month == df_month[1].date.month
        last == DaysInMonth(year, month)
        first_weekday == weekday(year, month, 1)
        loop == WeeksLoop(df_month, 1, last, <<>>, [i \in 1..first_weekday |-> Pad])
    IN  IF loop.week # <<>>
        THEN Append(loop.mat, loop.week \o [i \in 1..(7 - Len(loop.week)) |-> Pad])
        ELSE loop.mat

-----------------------------------------------------------------------------
(* update_route_analysis: from the full dataset to the calendar figure *)

FullColumns == {"Year", "Month", "DayofMonth", "delay_cost", "Carrier"}

\* pd.to_datetime assembles a date of the calendar
ValidDate(r) == r.Month \in 1..12 /\ r.DayofMonth \in 1..DaysInMonth(r.Year, r.Month)

\* df after the optional filter by carrier, lines 1485-1493
FilteredFlights(df, columns, carrier_filter, selected_carriers_json) ==
    LET carriers_to_filter == CarriersToFilter(carrier_filter, selected_carriers_json)
    IN  IF truthy(carriers_to_filter) /\ "Carrier" \in columns
        THEN SelectSeq(df, LAMBDA r : r.Carrier \in Range(carriers_to_filter))
        ELSE df

\* a date as one number, in the order of the dates
DateKey(r) == r.Year * 10000 + r.Month * 100 + r.DayofMonth

\* daily: delay_cost summed by date, the dates in ascending order; sum() skips NaN
Daily(df) ==
    LET ordered == Ascending({DateKey(df[i]) : i \in 1..Len(df)})
    IN  [i \in 1..Len(ordered) |->
            LET rows == SelectSeq(df, LAMBDA r : DateKey(r) = ordered[i])
            IN  [date |-> [year |-> ordered[i] \div 10000,
                           month |-> (ordered[i] \div 100) % 100,
                           day |-> ordered[i] % 100],
                 delay_cost |-> Sum([j \in 1..Len(rows) |->
                                       IF rows[j].delay_cost = NaNNum THEN 0
                                       ELSE rows[j].delay_cost])]]

\* [[0]*7], the grid of a month without a record
NoRecordsGrid == <<[c \in 1..7 |-> <<0>>]>>

\* z of the 12 heatmaps, lines 1535-1538
MonthGrids(year_df, selected_year) ==
    [m \in 1..12 |->
        LET mdf == SelectSeq(year_df, LAMBDA r : r.date.month = m)
        IN  IF mdf # <<>> THEN month_matrix(mdf) ELSE NoRecordsGrid]

\* lines 1499-1549: the placeholder without a daily record, else the 12 grids of
\* the most recent year
CalendarFigure(daily) ==
    IF daily = <<>>
    THEN EmptyFigure("No daily delay cost data after filtering")
    ELSE LET selected_year == MaxOf([i \in 1..Len(daily) |-> daily[i].date.year])
             year_df == SelectSeq(daily, LAMBDA r : r.date.year = selected_year)
         IN  [kind |-> "calendar", message |-> "", year |-> selected_year,
              z |-> MonthGrids(year_df, selected_year)]

\* the first exception of the try block, "" when there is none: read_csv on a
\* file without a header, the date columns, a date that is none, the cost column
RouteAnalysisRaises(file, df) ==
    LET columns == Columns(file, FullColumns)
    IN  IF columns = {} THEN "EmptyDataError: No columns to parse from file"
        ELSE IF file.rows = <<>> THEN ""
        ELSE IF ~({"Year", "Month", "DayofMonth"} \subseteq columns)
             THEN "KeyError: not in index"
        ELSE IF \E i \in 1..Len(df) : ~ValidDate(df[i])
             THEN "ValueError: cannot assemble the datetimes"
        ELSE IF "delay_cost" \notin columns THEN "KeyError: 'Column not found: delay_cost'"
        ELSE ""

\* the callback taking the selected carriers from the process-wide set instead
\* of the store it was handed
RouteAnalysisGlobalSet(selected_carriers_json, carrier_filter) ==
    LET selected == CHOOSE l \in ListsOf(selected_carriers_set) : TRUE
        df == FilteredFlights(full_csv.rows, Columns(full_csv, FullColumns),
                              carrier_filter, json_dumps(selected))
        raised == RouteAnalysisRaises(full_csv, df)
        body == IF raised # "" THEN Raise(raised)
                ELSE IF full_csv.rows = <<>> THEN EmptyFigure("Full dataset CSV is empty")
                ELSE CalendarFigure(Daily(df))
    IN  /\ call' = [fn |-> "update_route_analysis", top_n |-> 0,
                    carrier_filter |-> carrier_filter,
                    selected_carriers_json |-> selected_carriers_json]
        /\ selections' = IF full_csv.exists /\ raised = "" /\ full_csv.rows # <<>>
                         THEN [df |-> df] ELSE NoSelections
        /\ figure' = IF ~full_csv.exists
                     THEN EmptyFigure("Full dataset CSV not found (outputs/full_dataset_for_tableau.csv)")
                     ELSE TryExcept(body, "Error loading full dataset")
        /\ UNCHANGED top_routes

\* the callback's body on its two inputs
RouteAnalysis(selected_carriers_json, carrier_filter) ==
    LET df == FilteredFlights(full_csv.rows, Columns(full_csv, FullColumns),
                              carrier_filter, selected_carriers_json)
        raised == RouteAnalysisRaises(full_csv, df)
        body == IF raised # "" THEN Raise(raised)
                ELSE IF full_csv.rows = <<>> THEN EmptyFigure("Full dataset CSV is empty")
                ELSE CalendarFigure(Daily(df))
    IN  /\ call' = [fn |-> "update_route_analysis", top_n |-> 0,
                    carrier_filter |-> carrier_filter,
                    selected_carriers_json |-> selected_carriers_json]
        /\ selections' = IF full_csv.exists /\ raised = "" /\ full_csv.rows # <<>>
                         THEN [df |-> df] ELSE NoSelections
        /\ figure' = IF ~full_csv.exists
                     THEN EmptyFigure("Full dataset CSV not found (outputs/full_dataset_for_tableau.csv)")
                     ELSE TryExcept(body, "Error loading full dataset")
        /\ UNCHANGED top_routes

\* Dash runs the callback on the current values of its two Inputs
update_route_analysis ==
    /\ RouteAnalysis(selected_carriers_store, route_carrier_filter)
    /\ UNCHANGED <<route_csv, coords_csv, full_csv, summaries, requests, selected_carriers_set,
                   top_n_routes, route_carrier_filter, selected_carriers_store,
                   filter_classnames, arg, ret>>

\* update_airline_charts, lines 760-773: the carriers of filtered_df
AirlineCharts(selected_carriers_json) ==
    LET selected_carriers == SelectedFromStore(selected_carriers_json)
        filtered_df == IF truthy(selected_carriers) /\ Len(selected_carriers) > 0
                       THEN SelectSeq(Carriers, LAMBDA c : c \in Range(selected_carriers))
                       ELSE Carriers
    IN  /\ call' = [fn |-> "update_airline_charts", top_n |-> 0, carrier_filter |-> <<>>,
                    selected_carriers_json |-> selected_carriers_json]
        /\ figure' = [kind |-> "airline_charts", message |-> "", carriers |-> filtered_df]
        /\ UNCHANGED <<selections, top_routes>>

update_airline_charts ==
    /\ AirlineCharts(selected_carriers_store)
    /\ UNCHANGED <<route_csv, coords_csv, full_csv, summaries, requests, selected_carriers_set,
                   top_n_routes, route_carrier_filter, selected_carriers_store,
                   filter_classnames, arg, ret>>

\* load_data(): a missing summary file is reported on the console and the
\* FileNotFoundError raised again; a missing full dataset gives full_data = None
LoadData ==
    IF summaries.airline_summary /\ summaries.airport_summary
    THEN [raised |-> "", full_data |-> IF full_csv.exists THEN "DataFrame" ELSE "None"]
    ELSE [raised |-> "FileNotFoundError", full_data |-> "None"]

\* the module calls load_data() when it is imported
load_data ==
    /\ ret = NotCalled
    /\ ret' = LoadData
    /\ UNCHANGED <<route_csv, coords_csv, full_csv, summaries, requests, selected_carriers_set,
                   top_n_routes, route_carrier_filter, selected_carriers_store,
                   filter_classnames, call, selections, top_routes, figure, arg>>

\* number of years the daily records are taken from
MaxYears == 2

FirstYear == 2020

\* the days of a month that may have a daily record
RecordDays == {1, 2, 15, 29, 31}

\* summed delay cost of a day
DailyCosts == {0, 5}

\* mdf: the daily records of one month, one per date, in date order
MonthRecords(year, month, days, cost) ==
    [i \in 1..Cardinality(days) |->
        [date |-> [year |-> year, month |-> month, day |-> Ascending(days)[i]],
         delay_cost |-> cost[Ascending(days)[i]]]]

InitCalendar ==
    /\ \E year \in FirstYear..(FirstYear + MaxYears - 1), month \in 1..12 :
          \E days \in SUBSET {d \in RecordDays : d <= DaysInMonth(year, month)} :
              /\ days # {}
              /\ \E cost \in [days -> DailyCosts] :
                    arg = MonthRecords(year, month, days, cost)
    /\ ret = NotCalled
    /\ route_csv = NoFile
    /\ coords_csv = NoFile
    /\ selected_carriers_set = {}
    /\ top_n_routes = 0
    /\ route_carrier_filter = <<>>
    /\ selected_carriers_store = None
    /\ filter_classnames = AllActive
    /\ call = NoCall
    /\ full_csv = NoFile
    /\ summaries = BothSummaries
    /\ requests = NoRequests
    /\ selections = NoSelections
    /\ top_routes = <<>>
    /\ figure = NoFigure

\* the month loop of update_route_analysis calls month_matrix on a month with records
BuildMonth ==
    /\ ret = NotCalled
    /\ ret' = month_matrix(arg)
    /\ UNCHANGED <<route_csv, coords_csv, full_csv, summaries, requests, selected_carriers_set, top_n_routes,
                   route_carrier_filter, selected_carriers_store, filter_classnames,
                   call, selections, top_routes, figure, arg>>

NextCalendar == BuildMonth

SpecCalendar == InitCalendar /\ [][NextCalendar]_vars

-----------------------------------------------------------------------------
(* The program from its start: load_data at import, then the callbacks on the *)
(* files of a deployment that may be missing, empty or damaged               *)

\* most flights of outputs/full_dataset_for_tableau.csv
MaxFlights == 3

\* two routes above the minimum number of flights, one per carrier
GoodRoutes ==
    <<[route |-> Route(JFK, LAX), primary_carrier |-> "AA",
       num_flights |-> 500, total_delay_cost |-> 50000],
      [route |-> Route(BOS, MIA), primary_carrier |-> "DL",
       num_flights |-> 30, total_delay_cost |-> 200]>>

\* rows with a null value: no route, no flight count, no cost
NullRoutes ==
    <<[route |-> NaN, primary_carrier |-> "AA",
       num_flights |-> 30, total_delay_cost |-> 200],
      [route |-> Route(JFK, LAX), primary_carrier |-> "AA",
       num_flights |-> NaNNum, total_delay_cost |-> 200],
      [route |-> Route(BOS, MIA), primary_carrier |-> "DL",
       num_flights |-> 30, total_delay_cost |-> NaNNum]>>

\* routes below the minimum number of flights
SmallRoutes == [i \in 1..2 |-> [GoodRoutes[i] EXCEPT !.num_flights = 10]]

\* routes between airports no coordinate source holds
UnknownRoutes == [i \in 1..2 |-> [GoodRoutes[i] EXCEPT !.route = Route(ZZZ, ZZZ) \o <<"x">>]]

\* outputs/route_summary.csv missing, without a header, with a header only,
\* without one of its columns, with null values, and whole
DeployedRouteTables ==
    {NoFile, [exists |-> TRUE, rows |-> <<>>]}
    \cup {[exists |-> TRUE, rows |-> r] : r \in {GoodRoutes, NullRoutes, SmallRoutes, UnknownRoutes}}
    \cup {[exists |-> TRUE, rows |-> GoodRoutes, columns |-> RouteColumns \ {c}]
              : c \in {"route", "num_flights", "total_delay_cost"}}
    \cup {[exists |-> TRUE,
           rows |-> [i \in 1..2 |-> [GoodRoutes[i] EXCEPT !.primary_carrier = "Unknown"]],
           columns |-> RouteColumns \ {"primary_carrier"}],
          [exists |-> TRUE, rows |-> <<>>, columns |-> {}]}

\* flights of one year: two carriers on 1 January, a flight without a cost on
\* 29 February (no date unless the year is a leap year) and one without a
\* carrier on 31 December
FlightsOf(year) ==
    <<[Year |-> year, Month |-> 1, DayofMonth |-> 1, Carrier |-> "AA", delay_cost |-> 5],
      [Year |-> year, Month |-> 1, DayofMonth |-> 1, Carrier |-> "DL", delay_cost |-> 5],
      [Year |-> year, Month |-> 2, DayofMonth |-> 29, Carrier |-> "DL", delay_cost |-> NaNNum],
      [Year |-> year, Month |-> 12, DayofMonth |-> 31, Carrier |-> "NaN", delay_cost |-> 5]>>

RECURSIVE FlightsFrom(_, _)
FlightsFrom(year, years) ==
    IF years = 0 THEN <<>> ELSE FlightsOf(year) \o FlightsFrom(year + 1, years - 1)

FlightPool == FlightsFrom(FirstYear, MaxYears)

\* the full dataset without one of its columns, or without a header
DamagedFlightTables ==
    {[exists |-> TRUE, rows |-> SubSeq(FlightPool, 1, 2), columns |-> FullColumns \ {c}]
        : c \in FullColumns}
    \cup {[exists |-> TRUE, rows |-> <<>>, columns |-> {}]}

\* the dropdown and the store: each empty or naming carriers, the store also
\* with a text json.loads rejects
FilterInputs ==
    {<<>>, <<"AA">>}
    \X {None, json_dumps(<<>>), json_dumps(<<"DL">>), json_dumps(<<"AA", "DL">>), BrokenJson}

InitCallbacks ==
    /\ \/ /\ route_csv \in DeployedRouteTables
          /\ full_csv = NoFile
          /\ summaries = BothSummaries
       \/ /\ route_csv = NoFile
          /\ \/ full_csv \in DamagedFlightTables \cup {NoFile}
             \/ \E S \in SUBSET (1..Len(FlightPool)) :
                   /\ Cardinality(S) <= MaxFlights
                   /\ full_csv = [exists |-> TRUE,
                                  rows |-> [i \in 1..Cardinality(S) |->
                                              FlightPool[Ascending(S)[i]]]]
          /\ summaries = BothSummaries
       \/ /\ route_csv = NoFile
          /\ full_csv \in {NoFile, [exists |-> TRUE, rows |-> SubSeq(FlightPool, 1, 2)]}
          /\ summaries \in [airline_summary : BOOLEAN, airport_summary : BOOLEAN]
          /\ summaries # BothSummaries
    /\ coords_csv = NoFile
    /\ \E inputs \in FilterInputs :
          /\ route_carrier_filter = inputs[1]
          /\ selected_carriers_store = inputs[2]
    /\ top_n_routes \in TopNValues
    /\ selected_carriers_set = Range(Carriers)
    /\ filter_classnames = AllActive
    /\ requests = NoRequests
    /\ call = NoCall
    /\ selections = NoSelections
    /\ top_routes = <<>>
    /\ figure = NoFigure
    /\ arg = None
    /\ ret = NotCalled

\* the process is up: load_data returned
Running == ret # NotCalled /\ ret.raised = ""

NextCallbacks ==
    \/ load_data
    \/ Running /\ update_network_performance
    \/ Running /\ update_route_analysis
    \/ Running /\ update_airline_charts

SpecCallbacks == InitCallbacks /\ [][NextCallbacks]_vars

-----------------------------------------------------------------------------
(* A session: the legend, the slider and the dropdown are used while the map *)
(* callback runs on whatever its three inputs hold, and other browsers click *)
(* the legend of the same process                                            *)

\* two routes, one per carrier, both above the minimum number of flights
SessionTables ==
    {t \in SamplerTables :
        /\ Len(t.rows) = 2
        /\ \A i \in 1..2 : t.rows[i].num_flights >= MIN_FLIGHTS}

\* values of the multi-select dropdown: nothing picked, or one carrier
CarrierFilters == {<<>>, <<Carriers[1]>>}

InitSession ==
    /\ route_csv \in SessionTables
    /\ coords_csv = NoFile
    /\ selected_carriers_set = Range(Carriers)
    /\ top_n_routes \in TopNValues
    /\ route_carrier_filter = <<>>
    /\ selected_carriers_store = None
    /\ filter_classnames = AllActive
    /\ call = NoCall
    /\ full_csv = NoFile
    /\ summaries = BothSummaries
    /\ requests = NoRequests
    /\ selections = NoSelections
    /\ top_routes = <<>>
    /\ figure = NoFigure
    /\ arg = None
    /\ ret = NotCalled

\* a page load or a click on a legend item, in this browser or in another one
toggle_airline_selection ==
    /\ \E triggered_id \in Range(Carriers) \cup {NoTriggeredId}, own_browser \in BOOLEAN :
          ToggleAirlineSelection(triggered_id, own_browser)
    /\ UNCHANGED <<route_csv, coords_csv, full_csv, summaries, requests, top_n_routes, route_carrier_filter,
                   call, selections, top_routes, figure, arg, ret>>

\* the user moves the slider 'top-n-routes'
MoveSlider ==
    /\ \E n \in TopNValues : n # top_n_routes /\ top_n_routes' = n
    /\ UNCHANGED <<route_csv, coords_csv, full_csv, summaries, requests, selected_carriers_set, route_carrier_filter,
                   selected_carriers_store, filter_classnames, call, selections, top_routes, figure,
                   arg, ret>>

\* the user changes the dropdown 'route-carrier-filter'
PickCarriers ==
    /\ \E f \in CarrierFilters : f # route_carrier_filter /\ route_carrier_filter' = f
    /\ UNCHANGED <<route_csv, coords_csv, full_csv, summaries, requests, selected_carriers_set, top_n_routes,
                   selected_carriers_store, filter_classnames, call, selections, top_routes, figure,
                   arg, ret>>

NextSession ==
    \/ toggle_airline_selection
    \/ MoveSlider
    \/ PickCarriers
    \/ update_network_performance

SpecSession == InitSession /\ [][NextSession]_vars

-----------------------------------------------------------------------------
(* A page with both figures: the session above with the full dataset on disk, *)
(* so that the calendar callback runs next to the map callback               *)

\* the route tables of the page: both routes with the same number of flights
PageTables ==
    {t \in SessionTables : \A i \in 1..2 : t.rows[i].num_flights = t.rows[1].num_flights
                                            /\ t.rows[i].num_flights < 10 * MIN_FLIGHTS}

\* the full dataset of the page: a flight of either carrier on one day
PageFlights == [exists |-> TRUE, rows |-> SubSeq(FlightsOf(FirstYear), 1, 2)]

InitPage ==
    /\ route_csv \in PageTables
    /\ coords_csv = NoFile
    /\ full_csv = PageFlights
    /\ summaries = BothSummaries
    /\ selected_carriers_set = Range(Carriers)
    /\ top_n_routes \in TopNValues
    /\ route_carrier_filter = <<>>
    /\ selected_carriers_store = None
    /\ filter_classnames = AllActive
    /\ requests = NoRequests
    /\ call = NoCall
    /\ selections = NoSelections
    /\ top_routes = <<>>
    /\ figure = NoFigure
    /\ arg = None
    /\ ret = NotCalled

NextPage ==
    \/ toggle_airline_selection
    \/ MoveSlider
    \/ PickCarriers
    \/ update_network_performance
    \/ update_route_analysis

SpecPage == InitPage /\ [][NextPage]_vars

-----------------------------------------------------------------------------
(* Two sessions of one process: app.run serves each request in a thread of *)
(* its own, so the steps of two toggle_airline_selection calls interleave   *)

InitThreads ==
    /\ selected_carriers_set = Range(Carriers)
    /\ requests = NoRequests
    /\ route_csv = NoFile
    /\ coords_csv = NoFile
    /\ full_csv = NoFile
    /\ summaries = BothSummaries
    /\ top_n_routes = 0
    /\ route_carrier_filter = <<>>
    /\ selected_carriers_store = None
    /\ filter_classnames = AllActive
    /\ call = NoCall
    /\ selections = NoSelections
    /\ top_routes = <<>>
    /\ figure = NoFigure
    /\ arg = None
    /\ ret = NotCalled

ThreadStep(s) ==
    \/ PageLoad(s)
    \/ Click(s)
    \/ TestMembership(s)
    \/ UpdateSet(s)
    \/ Respond(s)

NextThreads ==
    /\ \E s \in Sessions : ThreadStep(s)
    /\ UNCHANGED <<route_csv, coords_csv, full_csv, summaries, top_n_routes, route_carrier_filter,
                   selected_carriers_store, filter_classnames, call, selections, top_routes,
                   figure, arg, ret>>

SpecThreads == InitThreads /\ [][NextThreads]_vars

-----------------------------------------------------------------------------
(* Claims about the route parser (SpecParser) *)

Dashes(s) == {i \in 1..Len(s) : s[i] = "-"}

FirstDash(s) == CHOOSE i \in Dashes(s) : \A j \in Dashes(s) : i <= j

BeforeFirstDash(s) == SubSeq(s, 1, FirstDash(s) - 1)

AfterFirstDash(s) == SubSeq(s, FirstDash(s) + 1, Len(s))

\* the text between the first dash and the second, or the end
SecondSegment(s) ==
    LET rest == AfterFirstDash(s)
    IN  IF Dashes(rest) = {} THEN rest ELSE BeforeFirstDash(rest)

IsLetter(c) == \E i \in 1..26 : c = LowerLetters[i] \/ c = UpperLetters[i]

Trimmed(s) == s = <<>> \/ (s[1] \notin Whitespace /\ s[Len(s)] \notin Whitespace)

Uppercased(s) == \A i \in 1..Len(s) : \A k \in 1..26 : s[i] # LowerLetters[k]

\* C4 as claimed: for a route string with a dash the destination is the whole
\* text after the first dash (trimmed, uppercased), later dashes included.
C4_DestIsWholeRemainder ==
    (ret # NotCalled /\ ~isna(arg) /\ Dashes(arg) # {}) =>
        ret = <<upper(strip(BeforeFirstDash(arg))), upper(strip(AfterFirstDash(arg)))>>

\* C4 amended: for a route string with a dash the origin is the text before the
\* first dash and the destination is the text between the first dash and the
\* second one (or the end of the string), both trimmed and uppercased; whatever
\* follows a second dash is discarded.
C4_FirstTwoSegments ==
    (ret # NotCalled /\ ~isna(arg) /\ Dashes(arg) # {}) =>
        /\ ret = <<upper(strip(BeforeFirstDash(arg))), upper(strip(SecondSegment(arg)))>>
        /\ Trimmed(ret[1]) /\ Trimmed(ret[2])
        /\ Uppercased(ret[1]) /\ Uppercased(ret[2])
        /\ Dashes(ret[1]) = {} /\ Dashes(ret[2]) = {}

\* "a-B-a" was parsed: the text after the second dash is gone
C4_Witness ==
    /\ arg = <<"a", "-", "B", "-", "a">>
    /\ ret = <<<<"A">>, <<"B">>>>

\* the characters of s that are not whitespace are letters, at least one, in one run
IsPaddedCode(s) ==
    /\ \E i \in 1..Len(s) : IsLetter(s[i])
    /\ \A i \in 1..Len(s) : IsLetter(s[i]) \/ s[i] \in Whitespace
    /\ \A i, k \in 1..Len(s) :
          (i < k /\ IsLetter(s[i]) /\ IsLetter(s[k])) => \A j \in i..k : IsLetter(s[j])

\* an "AAA-BBB" string: one dash between two codes
ValidRoute(s) ==
    /\ ~isna(s)
    /\ Cardinality(Dashes(s)) = 1
    /\ IsPaddedCode(BeforeFirstDash(s))
    /\ IsPaddedCode(AfterFirstDash(s))

LettersOf(s) == SelectSeq(s, IsLetter)

\* C5: a valid "AAA-BBB" string parses to its two codes, trimmed and uppercased,
\* and a string without a dash parses to (None, None).
C5_ValidAndDashless ==
    (ret # NotCalled) =>
        /\ ValidRoute(arg) =>
              /\ ret[1] = [i \in 1..Len(LettersOf(BeforeFirstDash(arg))) |->
                              UpperChar(LettersOf(BeforeFirstDash(arg))[i])]
              /\ ret[2] = [i \in 1..Len(LettersOf(AfterFirstDash(arg))) |->
                              UpperChar(LettersOf(AfterFirstDash(arg))[i])]
        /\ (~isna(arg) /\ Dashes(arg) = {}) => ret = <<None, None>>

\* " aB-Ba " was parsed to ("AB", "BA")
C5_Witness ==
    /\ arg = <<" ", "a", "B", "-", "B", "a", " ">>
    /\ ValidRoute(arg)
    /\ ret = <<<<"A", "B">>, <<"B", "A">>>>

-----------------------------------------------------------------------------
(* Claims about the coordinate resolver (SpecResolver) *)

RowsWithCode(code) == {i \in 1..Len(coords_csv.rows) : coords_csv.rows[i].iata = code}

FirstRowWithCode(code) ==
    coords_csv.rows[CHOOSE i \in RowsWithCode(code) : \A j \in RowsWithCode(code) : i <= j]

InExternal(code) == coords_csv.exists /\ RowsWithCode(code) # {}

C8_MissIsNone ==
    (ret # NotCalled) =>
        /\ (arg = None \/ arg = <<>>) => ret = <<NoCoord, NoCoord>>
        /\ (truthy(arg) /\ ~InExternal(arg) /\ arg \notin DOMAIN FALLBACK_AIRPORT_COORDS)
              => ret = <<NoCoord, NoCoord>>

\* "jfk" was looked up while the external table holds "JFK": no match
C8_Witness ==
    /\ arg = jfk
    /\ InExternal(JFK)
    /\ ~InExternal(jfk)
    /\ ret = <<NoCoord, NoCoord>>

-----------------------------------------------------------------------------
(* Claims about the airport aggregation and the markers (SpecAirports) *)

\* what the routes that start at code, and those that end there, add up to in
\* field col (each route counts 1 in field "routes")
FromOrigins(code, col) ==
    Sum([i \in 1..Len(arg) |->
            IF arg[i].origin # code THEN 0 ELSE IF col = "routes" THEN 1 ELSE arg[i][col]])

FromDests(code, col) ==
    Sum([i \in 1..Len(arg) |->
            IF arg[i].dest # code THEN 0 ELSE IF col = "routes" THEN 1 ELSE arg[i][col]])

\* the sum of one field over all airports
OverAirports(col) ==
    Sum([i \in 1..Len(ret.airport_texts) |-> ret.airports[ret.airport_texts[i]][col]])

Endpoints == {arg[i].origin : i \in 1..Len(arg)} \cup {arg[i].dest : i \in 1..Len(arg)}

\* C15: the aggregates are those of the endpoints of the rendered routes; each
\* route has added its delay cost, its flight count and one connection to its
\* origin's aggregate and again to its destination's (twice to the same airport
\* when they are one), so over all airports the connections sum to twice the
\* number of routes and the flights to twice the routes' flights.
C15_BothEndpointsInFull ==
    (ret # NotCalled) =>
        /\ DOMAIN ret.airports = Endpoints
        /\ \A code \in Endpoints :
              /\ ret.airports[code].routes
                    = FromOrigins(code, "routes") + FromDests(code, "routes")
              /\ ret.airports[code].total_cost
                    = FromOrigins(code, "delay_cost") + FromDests(code, "delay_cost")
              /\ ret.airports[code].total_flights
                    = FromOrigins(code, "num_flights") + FromDests(code, "num_flights")
        /\ OverAirports("routes") = 2 * Len(arg)
        /\ OverAirports("total_flights") = 2 * Sum([i \in 1..Len(arg) |-> arg[i].num_flights])
        /\ OverAirports("total_cost") = 2 * Sum([i \in 1..Len(arg) |-> arg[i].delay_cost])

\* JFK-JFK with 500 flights and JFK-LAX with 30 were folded: JFK has three
\* connections and 1030 flights, LAX one connection and 30 flights
C15_Witness ==
    /\ ret # NotCalled
    /\ Len(arg) = 2
    /\ arg[1].route = Route(JFK, JFK) /\ arg[1].num_flights = 500
    /\ arg[2].route = Route(JFK, LAX) /\ arg[2].num_flights = 30
    /\ ret.airports[JFK].routes = 3 /\ ret.airports[JFK].total_flights = 1030
    /\ ret.airports[LAX].routes = 1 /\ ret.airports[LAX].total_flights = 30

\* the connection count of the i-th marker's airport
RoutesAt(i) == ret.airports[ret.airport_texts[i]].routes

\* C16: a marker has the major-hub colour exactly when its airport has 5 or more
\* connections, the medium colour exactly when it has 3 or 4, and the small
\* colour exactly when it has 1 or 2; every marker has one of the three colours,
\* which are different.
C16_HubTiers ==
    (ret # NotCalled) =>
        /\ Len(ret.airport_colors) = Len(ret.airport_texts)
        /\ \A i \in 1..Len(ret.airport_texts) :
              /\ RoutesAt(i) >= 1
              /\ (ret.airport_colors[i] = COLORS.primary) <=> (RoutesAt(i) >= 5)
              /\ (ret.airport_colors[i] = COLORS.accent) <=> (RoutesAt(i) \in {3, 4})
              /\ (ret.airport_colors[i] = COLORS.text_secondary) <=> (RoutesAt(i) \in {1, 2})
        /\ Cardinality({COLORS.primary, COLORS.accent, COLORS.text_secondary}) = 3

\* one airport with 5 connections, one with 3 and one with 2, in the three tiers
C16_Witness ==
    /\ ret # NotCalled
    /\ \E i, j, k \in 1..Len(ret.airport_texts) :
          /\ RoutesAt(i) = 5 /\ ret.airport_colors[i] = COLORS.primary
          /\ RoutesAt(j) = 3 /\ ret.airport_colors[j] = COLORS.accent
          /\ RoutesAt(k) = 2 /\ ret.airport_colors[k] = COLORS.text_secondary

\* the total cost of the i-th marker's airport
CostAt(i) == ret.airports[ret.airport_texts[i]].total_cost

\* C17: every marker size is between 8 and 28; a larger total cost never has a
\* smaller marker; when some total cost is positive the airports of the largest
\* total cost have size 28, and when every total cost is 0 every marker has
\* size 8.
C17_RelativeMarkerSize ==
    (ret # NotCalled) =>
        /\ Len(ret.airport_sizes) = Len(ret.airport_texts)
        /\ \A i \in 1..Len(ret.airport_texts) :
              /\ ret.airport_sizes[i] >= 8 * MILLI /\ ret.airport_sizes[i] <= 28 * MILLI
              /\ \A j \in 1..Len(ret.airport_texts) :
                    CostAt(i) <= CostAt(j) => ret.airport_sizes[i] <= ret.airport_sizes[j]
              /\ (CostAt(i) > 0 /\ \A j \in 1..Len(ret.airport_texts) : CostAt(j) <= CostAt(i))
                    => ret.airport_sizes[i] = 28 * MILLI
        /\ (\A i \in 1..Len(ret.airport_texts) : CostAt(i) = 0)
              => \A i \in 1..Len(ret.airport_texts) : ret.airport_sizes[i] = 8 * MILLI

\* three airports of three different total costs: sizes 28, in between, and 8
C17_Witness ==
    /\ ret # NotCalled
    /\ \E i, j, k \in 1..Len(ret.airport_texts) :
          /\ CostAt(i) > CostAt(j) /\ CostAt(j) > CostAt(k) /\ CostAt(k) = 0
          /\ ret.airport_sizes[i] = 28 * MILLI
          /\ ret.airport_sizes[j] > 8 * MILLI /\ ret.airport_sizes[j] < 28 * MILLI
          /\ ret.airport_sizes[k] = 8 * MILLI

-----------------------------------------------------------------------------
(* Claims about the calendar grid (SpecCalendar) *)

\* the month the grid was built for
GridYear == arg[1].date.year

GridMonth == arg[1].date.month

GridDays == DaysInMonth(GridYear, GridMonth)

\* cells of the first week before day 1
Offset == weekday(GridYear, GridMonth, 1)

\* the cells of the grid, week by week
Cells == {<<w, c>> : w \in 1..Len(ret), c \in 1..7}

\* the cell of day d: week and column, from 1
WeekOf(d) == ((Offset + d - 1) \div 7) + 1

ColumnOf(d) == ((Offset + d - 1) % 7) + 1

\* the day a cell stands for; below 1 or above the month's days for a padding cell
DayAt(w, c) == 7 * (w - 1) + c - Offset

\* C18: every row of a month's grid has 7 cells; the first row starts with
\* weekday(1st) padding cells; day d is in row (weekday(1st)+d-1) div 7 and column
\* (weekday(1st)+d-1) mod 7; the cells that are not padding are as many as the
\* days of the month; the padding after the last day is in the last row only and
\* no row is all padding, so there are ceil((weekday(1st)+days)/7) rows, 4 to 6.
C18_CalendarLayout ==
    (ret # NotCalled) =>
        /\ \A w \in 1..Len(ret) : Len(ret[w]) = 7
        /\ \A c \in 1..Offset : ret[1][c] = Pad
        /\ Offset < 7 /\ ret[1][Offset + 1] # Pad
        /\ \A d \in 1..GridDays :
              /\ WeekOf(d) \in 1..Len(ret)
              /\ ret[WeekOf(d)][ColumnOf(d)] # Pad
        /\ Cardinality({x \in Cells : ret[x[1]][x[2]] # Pad}) = GridDays
        /\ \A x \in Cells : (DayAt(x[1], x[2]) > GridDays) => x[1] = Len(ret)
        /\ \A w \in 1..Len(ret) : \E c \in 1..7 : ret[w][c] # Pad
        /\ Len(ret) = (Offset + GridDays + 6) \div 7
        /\ Len(ret) \in 4..6

\* February 2021, 28 days from a Monday: four full rows, no padding at all
C18_Witness ==
    /\ ret # NotCalled
    /\ GridYear = 2021 /\ GridMonth = 2
    /\ Len(ret) = 4
    /\ \A x \in Cells : ret[x[1]][x[2]] # Pad

\* the cost of day d in the records, 0 without a record
CostOfDay(d) ==
    IF \E i \in 1..Len(arg) : arg[i].date.day = d
    THEN arg[CHOOSE i \in 1..Len(arg) : arg[i].date.day = d].delay_cost
    ELSE 0

\* C19: the grid of a 31-day month that starts on a Wednesday has 5 or 6 rows,
\* the Monday and Tuesday cells of its first row are padding and the Wednesday
\* cell is day 1's cost.
C19_WednesdayStart ==
    (ret # NotCalled /\ Offset = 2 /\ GridDays = 31) =>
        /\ Len(ret) \in {5, 6}
        /\ ret[1][1] = Pad /\ ret[1][2] = Pad
        /\ ret[1][3] = <<CostOfDay(1)>>

\* January 2020 with a cost of 5 on the 1st, a Wednesday
C19_Witness ==
    /\ ret # NotCalled
    /\ GridYear = 2020 /\ GridMonth = 1
    /\ arg[1].date.day = 1 /\ arg[1].delay_cost = 5
    /\ Len(ret) = 5
    /\ ret[1] = <<Pad, Pad, <<5>>, <<CostOfDay(2)>>, <<0>>, <<0>>, <<0>>>>

\* C20: the cell of every day of the month is the day's summed cost when the day
\* has a record and 0, not a padding cell, when it has none; padding cells are
\* exactly the cells outside the month's days.
C20_ZeroFill ==
    (ret # NotCalled) =>
        /\ \A d \in 1..GridDays : ret[WeekOf(d)][ColumnOf(d)] = <<CostOfDay(d)>>
        /\ \A x \in Cells :
              (ret[x[1]][x[2]] = Pad) <=> (DayAt(x[1], x[2]) \notin 1..GridDays)

\* a month with a cost of 5 on the 2nd and no record for the 1st and the 3rd:
\* their cells are 0 and the 2nd's is 5
C20_Witness ==
    /\ ret # NotCalled
    /\ \A i \in 1..Len(arg) : arg[i].date.day # 1
    /\ CostOfDay(2) = 5
    /\ ret[WeekOf(1)][ColumnOf(1)] = <<0>>
    /\ ret[WeekOf(2)][ColumnOf(2)] = <<5>>
    /\ ret[WeekOf(3)][ColumnOf(3)] = <<0>>

-----------------------------------------------------------------------------
(* Claims about the map callback in a session (SpecSession) *)

ClickOn(c) == \E own_browser \in BOOLEAN : ToggleAirlineSelection(c, own_browser)

\* the set a store text lists
StoreSet(text) == Range(json_loads(text))

\* the set with the membership of carrier c flipped
Flipped(carriers, c) == IF c \in carriers THEN carriers \ {c} ELSE carriers \cup {c}

\* C28: the selected set starts as the set of all carriers; a click on carrier c
\* flips the membership of c and of no other carrier, so that a second click on
\* c restores the set; a page load leaves the set as it is; and the store
\* returned with a response lists exactly the set after the click.
C28_ToggleStateMachine ==
    /\ selected_carriers_set = Range(Carriers)
    /\ [][\A c \in Range(Carriers) :
            ClickOn(c) =>
                /\ selected_carriers_set' = Flipped(selected_carriers_set, c)
                /\ (c \in selected_carriers_set') # (c \in selected_carriers_set)
                /\ \A d \in Range(Carriers) \ {c} :
                      (d \in selected_carriers_set') = (d \in selected_carriers_set)
                /\ Flipped(selected_carriers_set', c) = selected_carriers_set]_vars
    /\ [][ClickOn(NoTriggeredId) => selected_carriers_set' = selected_carriers_set]_vars
    /\ [][(selected_carriers_store' # selected_carriers_store)
            => StoreSet(selected_carriers_store') = selected_carriers_set']_vars

\* DL was clicked off in this browser: the set and the store hold AA alone
C28_Witness ==
    /\ selected_carriers_set = {"AA"}
    /\ selected_carriers_store = json_dumps(<<"AA">>)
    /\ filter_classnames = <<ACTIVE, INACTIVE>>

\* C29 as claimed: in every response of toggle_airline_selection, after clicks
\* and page loads in any order, the item of a carrier is marked active if and
\* only if the carrier is in the set the store of that response lists.
C29_HighlightMatchesSelection ==
    (selected_carriers_store # None) =>
        \A i \in 1..Len(Carriers) :
            (filter_classnames[i] = ACTIVE)
                <=> (Carriers[i] \in StoreSet(selected_carriers_store))

\* a callback ran: one of its outputs or the record of its inputs changed
CallbackRan ==
    \/ call' # call \/ figure' # figure
    \/ top_routes' # top_routes \/ selections' # selections

\* C24: a run of the map callback or of the calendar callback leaves the files,
\* the process-wide set of selected carriers, the store and the other inputs as
\* they are; and a run on the inputs of the run before it returns what that run
\* returned, whatever the legend, the slider, the dropdown and other browsers
\* did to the session and to the process-wide set in between.
C24_NoStateBetweenInvocations ==
    /\ [][CallbackRan =>
            /\ UNCHANGED <<route_csv, coords_csv, full_csv, summaries>>
            /\ UNCHANGED <<selected_carriers_set, selected_carriers_store, filter_classnames>>
            /\ UNCHANGED <<top_n_routes, route_carrier_filter>>]_vars
    /\ [][(call.fn \in {"update_network_performance", "update_route_analysis"}
            /\ call' = call)
              => (figure' = figure /\ top_routes' = top_routes
                    /\ selections' = selections)]_vars

\* the calendar callback ran on the inputs the page holds now, with an empty
\* store and dropdown, and returned the calendar of both carriers' flights
\* although the process-wide set has lost a carrier since the page was loaded
C24_Witness ==
    /\ call = [fn |-> "update_route_analysis", top_n |-> 0,
               carrier_filter |-> route_carrier_filter,
               selected_carriers_json |-> selected_carriers_store]
    /\ route_carrier_filter = <<>>
    /\ selected_carriers_store = None
    /\ selected_carriers_set = {"DL"}
    /\ figure.kind = "calendar"
    /\ figure.z[1][1][3] = <<10>>

-----------------------------------------------------------------------------
(* Claims about the route sampler and the map output (Spec) *)

Called == call.fn = "update_network_performance"

\* the carrier filter in effect in the last call
FilterInEffect == CarriersToFilter(call.carrier_filter, call.selected_carriers_json)

\* the route identifiers left by the minimum-flights filter and the carrier filter
EligibleIds ==
    {route_csv.rows[i].route : i \in
        {j \in 1..Len(route_csv.rows) :
            /\ route_csv.rows[j].num_flights >= 25
            /\ truthy(FilterInEffect) =>
                  \E k \in 1..Len(FilterInEffect) :
                      FilterInEffect[k] = route_csv.rows[j].primary_carrier}}

EligibleRows == {r \in Range(route_csv.rows) : r.route \in EligibleIds}

SampledIds == {top_routes[i].route : i \in 1..Len(top_routes)}

\* C1 as claimed: the sampler selects exactly min(N, number of eligible routes)
\* distinct routes.
C1_CountIsMin ==
    Called => Cardinality(SampledIds) = Min(call.top_n, Cardinality(EligibleIds))

\* C2 as claimed: with fewer than N eligible routes the sampler's output is the
\* whole eligible table.
C2_ShortfallReturnsAll ==
    (Called /\ Cardinality(EligibleIds) < call.top_n) => SampledIds = EligibleIds

\* rows that rank r out of the top: others with at least r's value in column col
AtLeast(r, col) == {s \in EligibleRows : s.route # r.route /\ s[col] >= r[col]}

\* C10: every route among the floor(0.4*N) routes of highest total delay cost, and
\* every route among the floor(0.4*N) routes of highest flight count, is in the
\* sampler's output; the cut to N removes none of them.
C10_RankedRoutesKept ==
    Called =>
        /\ \A r \in EligibleRows :
              (Cardinality(AtLeast(r, "total_delay_cost")) < (2 * call.top_n) \div 5)
                  => r.route \in SampledIds
        /\ \A r \in EligibleRows :
              (Cardinality(AtLeast(r, "num_flights")) < (2 * call.top_n) \div 5)
                  => r.route \in SampledIds
        /\ Len(top_routes) = Cardinality(SampledIds)
        /\ Len(top_routes) <= call.top_n

\* N = 5 on four eligible routes: the two costliest are not the two busiest, and
\* all four are in the output
C10_Witness ==
    /\ Called /\ call.top_n = 5
    /\ Cardinality(EligibleIds) = 4
    /\ \E r \in EligibleRows :
          /\ Cardinality(AtLeast(r, "total_delay_cost")) < 2
          /\ Cardinality(AtLeast(r, "num_flights")) >= 2
    /\ \E r \in EligibleRows :
          /\ Cardinality(AtLeast(r, "num_flights")) < 2
          /\ Cardinality(AtLeast(r, "total_delay_cost")) >= 2
    /\ SampledIds = EligibleIds

RoutesOf(df) == {df[i].route : i \in 1..Len(df)}

\* the routes the top-cost or the top-volume subset selected
RankedIds == RoutesOf(selections.cost_routes) \cup RoutesOf(selections.volume_routes)

\* floor(0.4 * N) and floor(0.2 * N) of the last call
RankedShare == (4 * call.top_n) \div 10

DiversityShare == (2 * call.top_n) \div 10

\* C11: the randomly drawn routes are eligible routes that neither ranked subset
\* selected, all different, exactly min(floor(0.2*N), size of that remainder) of
\* them; each ranked subset has min(floor(0.4*N), eligible routes) rows, also
\* when the remainder is smaller than floor(0.2*N).
C11_DiversityFromRemainder ==
    Called =>
        /\ RoutesOf(selections.diversity_routes) \subseteq (EligibleIds \ RankedIds)
        /\ Cardinality(RoutesOf(selections.diversity_routes)) = Len(selections.diversity_routes)
        /\ Len(selections.diversity_routes)
              = Min(DiversityShare, Cardinality(EligibleIds \ RankedIds))
        /\ Len(selections.cost_routes) = Min(RankedShare, Cardinality(EligibleIds))
        /\ Len(selections.volume_routes) = Min(RankedShare, Cardinality(EligibleIds))

\* N = 10 on five tied routes: the ranked subsets take the same four, the
\* remainder of one is smaller than floor(0.2*N) = 2, and that one route is drawn
C11_Witness ==
    /\ Called /\ call.top_n = 10
    /\ Cardinality(EligibleIds) = 5
    /\ Cardinality(RankedIds) = 4
    /\ Len(selections.diversity_routes) = 1
    /\ Len(selections.cost_routes) = 4
    /\ SampledIds = EligibleIds

\* C12: the final selection holds no two records with the same route identifier
\* and at most N records.
C12_DistinctAndBounded ==
    Called =>
        /\ \A i, j \in 1..Len(top_routes) :
              top_routes[i].route = top_routes[j].route => i = j
        /\ Len(top_routes) <= call.top_n

\* a route was selected by both ranked subsets, another by one of them only, and
\* the selection holds each selected route once
C12_Witness ==
    /\ Called
    /\ RoutesOf(selections.cost_routes) \cap RoutesOf(selections.volume_routes) # {}
    /\ RoutesOf(selections.cost_routes) # RoutesOf(selections.volume_routes)
    /\ Len(selections.diversity_routes) > 0
    /\ Len(top_routes) = Cardinality(RankedIds) + Len(selections.diversity_routes)
    /\ Cardinality(SampledIds) = Len(top_routes)

FilterSet == {FilterInEffect[k] : k \in 1..Len(FilterInEffect)}

\* C13: with a non-empty carrier filter in effect, every route of the sampler's
\* output has its primary carrier in the filter set, and every route of the file
\* with at least 25 flights whose primary carrier is in the set is left in the
\* table the sampler works on.
C13_CarrierFilter ==
    (Called /\ truthy(FilterInEffect)) =>
        /\ \A i \in 1..Len(top_routes) : top_routes[i].primary_carrier \in FilterSet
        /\ \A i \in 1..Len(route_csv.rows) :
              (/\ route_csv.rows[i].num_flights >= 25
               /\ route_csv.rows[i].primary_carrier \in FilterSet)
                  => route_csv.rows[i].route \in RoutesOf(selections.route_df)

\* the store selects DL alone on a table with routes of both carriers above the
\* threshold: the output is not empty and has the DL routes only
C13_Witness ==
    /\ Called
    /\ call.carrier_filter = <<>>
    /\ call.selected_carriers_json = json_dumps(<<"DL">>)
    /\ \E i \in 1..Len(route_csv.rows) :
          route_csv.rows[i].num_flights >= 25 /\ route_csv.rows[i].primary_carrier = "AA"
    /\ top_routes # <<>>
    /\ \A i \in 1..Len(top_routes) : top_routes[i].primary_carrier = "DL"

\* the table of the scenario: JFK-LAX with 500 flights, BOS-MIA with 10
ScenarioTable ==
    /\ Len(route_csv.rows) = 2
    /\ route_csv.rows[1].route = Route(JFK, LAX)
    /\ route_csv.rows[1].num_flights = 500 /\ route_csv.rows[1].total_delay_cost = 50000
    /\ route_csv.rows[2].route = Route(BOS, MIA)
    /\ route_csv.rows[2].num_flights = 10 /\ route_csv.rows[2].total_delay_cost = 200

\* the rows of the file left by the carrier filter first and the threshold second
CarrierThenMinimum ==
    LET df == read_csv(route_csv)
        kept == IF truthy(FilterInEffect)
                THEN SelectSeq(df, LAMBDA r : r.primary_carrier \in FilterSet)
                ELSE df
    IN  SelectSeq(kept, LAMBDA r : r.num_flights >= 25)

\* C14: every route of the sampler's output has at least 25 flights; on the table
\* {JFK-LAX: 500 flights, BOS-MIA: 10 flights} with N = 10 and no filter the output
\* is exactly {JFK-LAX}; the table the sampler works on is the one the carrier
\* filter followed by the threshold would leave.
C14_MinimumFlights ==
    Called =>
        /\ \A i \in 1..Len(top_routes) : top_routes[i].num_flights >= 25
        /\ (ScenarioTable /\ call.top_n = 10 /\ ~truthy(FilterInEffect))
              => SampledIds = {Route(JFK, LAX)}
        /\ (route_csv.exists /\ route_csv.rows # <<>>)
              => selections.route_df = CarrierThenMinimum

\* the scenario was run: JFK-LAX alone is selected
C14_Witness ==
    /\ Called /\ call.top_n = 10 /\ ~truthy(FilterInEffect)
    /\ ScenarioTable
    /\ Len(top_routes) = 1
    /\ top_routes[1].route = Route(JFK, LAX)

\* a route string that names no two resolvable airports: missing, without a dash,
\* with an empty code, or with a code neither coordinate source holds
Unroutable(route) ==
    LET codes == parse_route_codes(route)
    IN  \/ ~truthy(codes[1]) \/ ~truthy(codes[2])
        \/ get_coordinates(codes[1], coords_csv) = <<NoCoord, NoCoord>>
        \/ get_coordinates(codes[2], coords_csv) = <<NoCoord, NoCoord>>

MappedRecords == {figure.coords_data[i] : i \in 1..Len(figure.coords_data)}

\* C6 as claimed: a missing route value or one with fewer than two dash-separated
\* segments parses to (None, None), and no record of the map output carries a
\* route string whose parsed origin or destination is unresolved or empty.
C6_MalformedNeverMapped ==
    Called =>
        /\ \A i \in 1..Len(route_csv.rows) :
              (isna(route_csv.rows[i].route) \/ Dashes(route_csv.rows[i].route) = {})
                  => parse_route_codes(route_csv.rows[i].route) = <<None, None>>
        /\ \A c \in MappedRecords : c.route # NaN => ~Unroutable(c.route)

\* C9 as claimed: every record of the map output has its four coordinates, a
\* sampled route with an unresolved endpoint is not in the map output, and every
\* other sampled route is.
C9_ResolvedOrDropped ==
    Called =>
        /\ \A c \in MappedRecords :
              /\ c.origin_lat # NoCoord /\ c.origin_lon # NoCoord
              /\ c.dest_lat # NoCoord /\ c.dest_lon # NoCoord
        /\ \A i \in 1..Len(top_routes) :
              IF Unroutable(top_routes[i].route)
              THEN \A c \in MappedRecords : c.route # top_routes[i].route
              ELSE \E c \in MappedRecords : c.route = top_routes[i].route

-----------------------------------------------------------------------------
(* Claims about two sessions toggling at once (SpecThreads) *)

\* session s has a click on carrier c whose update of the set is over
Updated(s, c) ==
    /\ requests[s].clicked_carrier = c
    /\ \/ requests[s].pc = "respond"
       \/ requests[s].pc = "idle" /\ requests[s].outcome # "none"

\* the update of session s comes after an update of the other session that came
\* after the test of session s: what the test found is no longer so
StaleTest(s) ==
    requests[s].present # (requests[s].clicked_carrier \in selected_carriers_set)

\* C25: the set is shared by the sessions: every response carries the set as it
\* is in the process at that moment, whichever session changed it.  An update
\* made right after its membership test flips the carrier, so two clicks on one
\* carrier, in either order, leave the set as it was; an update separated from
\* its test by the other session's update of the same carrier changes nothing
\* (the add is lost, the remove raises KeyError), so the two clicks together
\* leave the carrier flipped.
C25_SharedSetUnsafe ==
    /\ [][\A s \in Sessions :
            (requests[s].pc = "update" /\ requests'[s].pc # "update") =>
                IF StaleTest(s)
                THEN /\ selected_carriers_set' = selected_carriers_set
                     /\ requests[s].present <=> requests'[s].outcome = "KeyError"
                ELSE /\ selected_carriers_set'
                          = Flipped(selected_carriers_set, requests[s].clicked_carrier)
                     /\ requests'[s].outcome # "KeyError"]_vars
    /\ [][\A s \in Sessions :
            (requests'[s].outcome = "200" /\ requests'[s] # requests[s])
                => StoreSet(requests'[s].store) = selected_carriers_set']_vars

\* both sessions clicked on AA while it was selected and both tests found it:
\* session 1 removed it and was answered, the remove of session 2 raised KeyError
\* and AA is gone, where either order of the two clicks leaves AA selected; and
\* the store session 1 was handed lists DL alone
C25_Witness ==
    /\ Updated(1, "AA") /\ Updated(2, "AA")
    /\ requests[1].present /\ requests[2].present
    /\ requests[1].outcome = "200" /\ requests[2].outcome = "KeyError"
    /\ selected_carriers_set = {"DL"}
    /\ requests[1].store = json_dumps(<<"DL">>)

\* the sampled routes whose two endpoints are resolved
ResolvedRoutes == SelectSeq(top_routes, LAMBDA r : ~Unroutable(r.route))

\* what the resolved routes that start or end at the airport add up to in a
\* column, a route that starts and ends there counting twice
ResolvedTotal(code, col) ==
    Sum([i \in 1..Len(ResolvedRoutes) |->
            LET codes == parse_route_codes(ResolvedRoutes[i].route)
                value == IF col = "routes" THEN 1 ELSE ResolvedRoutes[i][col]
            IN  (IF codes[1] = code THEN value ELSE 0) + (IF codes[2] = code THEN value ELSE 0)])

ResolvedEndpoints ==
    UNION {{parse_route_codes(ResolvedRoutes[i].route)[1],
            parse_route_codes(ResolvedRoutes[i].route)[2]} : i \in 1..Len(ResolvedRoutes)}

\* C27 as claimed: the airports of the map are the endpoints of the sampled
\* routes whose two endpoints are resolved, and the total cost, the flight total
\* and the connection count of each are those of these routes alone; a sampled
\* route with an unresolved endpoint adds to no airport and no other route
\* stands in for it.
C27_AggregatesFromResolvedOnly ==
    (Called /\ figure.kind = "map") =>
        /\ DOMAIN figure.markers.airports = ResolvedEndpoints
        /\ Len(figure.coords_data) = Len(ResolvedRoutes)
        /\ \A code \in DOMAIN figure.markers.airports :
              /\ figure.markers.airports[code].routes = ResolvedTotal(code, "routes")
              /\ figure.markers.airports[code].total_cost
                    = ResolvedTotal(code, "total_delay_cost")
              /\ figure.markers.airports[code].total_flights
                    = ResolvedTotal(code, "num_flights")

-----------------------------------------------------------------------------
(* Claims about the callbacks on missing, empty and damaged files (SpecCallbacks) *)

MapCalled == call.fn = "update_network_performance"

CalendarCalled == call.fn = "update_route_analysis"

\* the file has rows and every column
Whole(file) == file.exists /\ file.rows # <<>> /\ "columns" \notin DOMAIN file

\* C21: whatever the files hold (missing, without a header, empty, without a
\* column, with null values, with a date that is none) and whatever the store
\* holds, the map callback and the calendar callback return a figure, the real
\* one or a placeholder with a message; no exception leaves them.
C21_NeverRaises ==
    (MapCalled \/ CalendarCalled) =>
        /\ figure.kind \in {"placeholder", "map", "calendar"}
        /\ figure.kind = "placeholder" => figure.message # ""
        /\ MapCalled => figure.kind # "calendar"
        /\ CalendarCalled => figure.kind # "map"

\* the map callback ran on a route file without the num_flights column: the
\* KeyError of line 1139 came back as a placeholder
C21_Witness ==
    /\ MapCalled
    /\ route_csv.exists /\ "columns" \in DOMAIN route_csv
    /\ "num_flights" \notin route_csv.columns /\ route_csv.columns # {}
    /\ figure.kind = "placeholder"
    /\ figure.message = "Error creating network map"
    /\ figure.error = "KeyError: 'num_flights'"

\* C22 as claimed: when the airline summary, the airport summary, the route
\* summary or the full dataset is missing, the program renders a placeholder
\* and raises nothing.
C22_MissingFilePlaceholder ==
    /\ (ret # NotCalled) => ret.raised = ""
    /\ (MapCalled /\ ~route_csv.exists) => (figure.kind = "placeholder" /\ figure.message # "")
    /\ (CalendarCalled /\ ~full_csv.exists)
          => (figure.kind = "placeholder" /\ figure.message # "")

\* no flight of the full dataset passes the carrier filter in effect
NoFlightPasses ==
    /\ truthy(FilterInEffect)
    /\ \A i \in 1..Len(full_csv.rows) : full_csv.rows[i].Carrier \notin FilterSet

\* C23: when the two filters leave no route, or every sampled route has an
\* unresolved endpoint, the map callback returns the placeholder "No coordinate
\* data available for routes", and a map it returns has at least one route; when
\* the carrier filter leaves no flight, the calendar callback returns the
\* placeholder "No daily delay cost data after filtering", and a calendar it
\* returns is the one of a year with a flight that passed the filter.
C23_EmptyResultPlaceholder ==
    /\ (MapCalled /\ Whole(route_csv) /\ EligibleIds = {})
          => figure = EmptyFigure("No coordinate data available for routes")
    /\ (MapCalled /\ Whole(route_csv)
           /\ \A i \in 1..Len(top_routes) : Unroutable(top_routes[i].route))
          => figure = EmptyFigure("No coordinate data available for routes")
    /\ (MapCalled /\ figure.kind = "map") => figure.coords_data # <<>>
    /\ (CalendarCalled /\ Whole(full_csv) /\ NoFlightPasses)
          => figure = EmptyFigure("No daily delay cost data after filtering")
    /\ (CalendarCalled /\ figure.kind = "calendar")
          => \E i \in 1..Len(full_csv.rows) :
                /\ full_csv.rows[i].Year = figure.year
                /\ truthy(FilterInEffect) => full_csv.rows[i].Carrier \in FilterSet

\* the map callback ran on two routes of 10 flights: no route is left and the
\* placeholder is returned
C23_Witness ==
    /\ MapCalled
    /\ Len(route_csv.rows) = 2
    /\ \A i \in 1..2 : route_csv.rows[i].num_flights = 10
    /\ top_routes = <<>>
    /\ figure = EmptyFigure("No coordinate data available for routes")

\* the padded Monday-first layout of a month: rows of 7 cells, as many as the
\* month's weeks, a padding cell exactly where the cell is no day of the month
IsMonthLayout(grid, year, month) ==
    LET offset == weekday(year, month, 1)
        days == DaysInMonth(year, month)
    IN  /\ Len(grid) = (offset + days + 6) \div 7
        /\ \A w \in 1..Len(grid) :
              /\ Len(grid[w]) = 7
              /\ \A c \in 1..7 : (grid[w][c] = Pad) <=> (7 * (w - 1) + c - offset \notin 1..days)

\* the selected year has a record in month m
MonthHasRecord(m) ==
    \E i \in 1..Len(selections.df) :
        selections.df[i].Year = figure.year /\ selections.df[i].Month = m

\* C26 as claimed: each of the 12 grids of the calendar is the padded
\* Monday-first layout of its month, and the grid of a month without a record
\* has 0 in the cell of every day of the month.
C26_EmptyMonthLayout ==
    (CalendarCalled /\ figure.kind = "calendar") =>
        \A m \in 1..12 :
            /\ IsMonthLayout(figure.z[m], figure.year, m)
            /\ ~MonthHasRecord(m) =>
                  \A w \in 1..Len(figure.z[m]) : \A c \in 1..7 :
                      figure.z[m][w][c] \in {Pad, <<0>>}

\* the carriers the two inputs of the last call select: those of the dropdown
\* when it is not empty, else those of the store; Range(Carriers) and every other
\* value when both are empty or the store does not parse
NoFilter ==
    /\ call.carrier_filter = <<>>
    /\ \/ call.selected_carriers_json = None
       \/ ~JsonIsList(call.selected_carriers_json)
       \/ json_loads(call.selected_carriers_json) = <<>>

Selects(carrier) ==
    \/ NoFilter
    \/ call.carrier_filter # <<>> /\ carrier \in Range(call.carrier_filter)
    \/ call.carrier_filter = <<>> /\ carrier \in StoreSet(call.selected_carriers_json)

\* C30: the map callback works on the routes of at least 25 flights, and the
\* calendar callback on the flights, whose carrier is in the dropdown when the
\* dropdown is not empty, in the store's list when the dropdown is empty and the
\* list is not, and on all of them when both are empty or the store does not
\* parse; the airline charts show the carriers of the store's list, and all
\* carriers when the list is empty, missing or does not parse.
C30_EffectiveFilter ==
    /\ (MapCalled /\ Whole(route_csv)) =>
          selections.route_df =
              SelectSeq(read_csv(route_csv),
                        LAMBDA r : r.num_flights >= 25 /\ Selects(r.primary_carrier))
    /\ (CalendarCalled /\ Whole(full_csv) /\ selections # NoSelections) =>
          selections.df = SelectSeq(full_csv.rows, LAMBDA r : Selects(r.Carrier))
    /\ (call.fn = "update_airline_charts") =>
          figure.carriers =
              IF    \/ call.selected_carriers_json = None
                    \/ ~JsonIsList(call.selected_carriers_json)
                    \/ json_loads(call.selected_carriers_json) = <<>>
              THEN Carriers
              ELSE SelectSeq(Carriers, LAMBDA c : c \in StoreSet(call.selected_carriers_json))

\* the map callback ran with AA in the dropdown and DL in the store on a table
\* with a route of either carrier: the AA route alone is left
C30_Witness ==
    /\ MapCalled
    /\ call.carrier_filter = <<"AA">>
    /\ call.selected_carriers_json = json_dumps(<<"DL">>)
    /\ route_csv.exists /\ route_csv.rows = GoodRoutes /\ "columns" \notin DOMAIN route_csv
    /\ Len(selections.route_df) = 1
    /\ selections.route_df[1].primary_carrier = "AA"

====
